---- MODULE Spec2Model ----
(***************************************************************************)
(* A model of oxn.c: the objects of the program (mem), the ordered         *)
(* registry (AVL tree), the symbol table (chaining hash map), the cursor,  *)
(* the parser combinators, the grammar and the name resolver.  The C call  *)
(* stack is the variable stack: a function that calls another one runs in  *)
(* several steps, one per stretch of code between two calls, and its frame *)
(* keeps its locals and the place (pc) where it resumes.  A pure operator  *)
(* keeps the name of the C function it models; the step of the function    *)
(* whose frame is on top of the stack is named Step_ followed by the name. *)
(***************************************************************************)
EXTENDS Integers, Sequences, FiniteSets, TLC

VARIABLES
  nextUID,   \* static volatile int nextUID
  mem,       \* the objects allocated by new(...) and the addressable locals
  file,      \* the text of the input file, a sequence of character codes
  src,       \* struct Source: the cursor
  stack,     \* the C call stack, innermost frame last
  res,       \* struct Resolver
  heap,      \* the name texts allocated by source_Text and still referred to
  fault,     \* the kinds of undefined behaviour executed so far
  crashed,   \* the process died (undefined behaviour, or unreachable())
  firstErr,  \* history: the first semantic error the resolver met
  regs,      \* registry harness: the root of each registry under test
  created,   \* registry harness: per registry, the keys in creation order
  tabs,      \* table harness: the symbol tables under test, [lhs, rhs]
  lastSet,   \* table harness: per table, name text -> value of the last set,
             \* and what lhs and rhs held when they were last merged
  got,       \* table harness: the last operation, its result, the count
  visited,   \* history: the expressions Resolver_Expr was entered on, in order
  steps,     \* history: the number of steps the parser has taken under main
  threads    \* newUID harness: per thread, its place in newUID, the value it
             \* read and the identifiers newUID returned to it

vars == <<steps, nextUID, mem, file, src, stack, res, heap, fault, crashed, firstErr,
          regs, created, tabs, lastSet, got, visited, threads>>

(***************************************************************************)
(* Bounds of the model.                                                    *)
(***************************************************************************)
MaxUID == 7
NumRegs == 2
NumNames == 2
NumVals == 2
MaxOps == 5
MaxLen == 3

(***************************************************************************)
(* With(v, Op) names an intermediate result: Op is applied to v.           *)
(***************************************************************************)
With(v, Op(_)) == Op(v)

(***************************************************************************)
(* Characters are their ASCII codes; a text is a sequence of codes.  Txt   *)
(* turns a tuple of one-character strings into a text.                     *)
(***************************************************************************)
Ascii ==
  ("\n" :> 10) @@ (" " :> 32) @@ ("(" :> 40) @@ (")" :> 41) @@ ("," :> 44) @@
  (";" :> 59) @@ ("=" :> 61) @@ (">" :> 62) @@ ("_" :> 95) @@
  ("0" :> 48) @@ ("1" :> 49) @@ ("2" :> 50) @@ ("3" :> 51) @@ ("4" :> 52) @@
  ("5" :> 53) @@ ("6" :> 54) @@ ("7" :> 55) @@ ("8" :> 56) @@ ("9" :> 57) @@
  ("a" :> 97) @@ ("b" :> 98) @@ ("c" :> 99) @@ ("d" :> 100) @@ ("e" :> 101) @@
  ("f" :> 102) @@ ("g" :> 103) @@ ("h" :> 104) @@ ("i" :> 105) @@
  ("j" :> 106) @@ ("k" :> 107) @@ ("l" :> 108) @@ ("m" :> 109) @@
  ("n" :> 110) @@ ("o" :> 111) @@ ("p" :> 112) @@ ("q" :> 113) @@
  ("r" :> 114) @@ ("s" :> 115) @@ ("t" :> 116) @@ ("u" :> 117) @@
  ("v" :> 118) @@ ("w" :> 119) @@ ("x" :> 120) @@ ("y" :> 121) @@ ("z" :> 122)

Txt(cs) == [i \in 1..Len(cs) |-> Ascii[cs[i]]]

(***************************************************************************)
(* Memory.  mem[p] is the object at address p; the address of the n-th     *)
(* object allocated is n and NULL is 0.  A field that was never written    *)
(* holds Undef; a released object is replaced by Freed.  A pointer into an *)
(* object is [obj, fld], and [obj, fld, idx] for an element of a slice.    *)
(***************************************************************************)
NULL == 0
Undef == [undef |-> TRUE]
Freed == [freed |-> TRUE]

\* The address new(type) returns, and the memory holding the new object.
new(m) == Len(m) + 1
Alloc(m, obj) == Append(m, obj)
Release(m, p) == [m EXCEPT ![p] = Freed]

Load(m, ptr) ==
  IF "idx" \in DOMAIN ptr THEN m[ptr.obj][ptr.fld][ptr.idx] ELSE m[ptr.obj][ptr.fld]

Store(m, ptr, val) ==
  IF "idx" \in DOMAIN ptr
  THEN [m EXCEPT ![ptr.obj][ptr.fld][ptr.idx] = val]
  ELSE [m EXCEPT ![ptr.obj][ptr.fld] = val]

(***************************************************************************)
(* Ordered registry: struct node and the AVL insertion.  A node is the     *)
(* first member of the object that holds it, so a node pointer is the      *)
(* address of that object.  The operators that change nodes return the     *)
(* memory after the change together with their result.                     *)
(***************************************************************************)
max(a, b) == IF a > b THEN a ELSE b

\* struct node as allocated, before node_Default.
NewNode == [Left |-> Undef, Right |-> Undef, Key |-> Undef, Height |-> Undef]

node_Default(node) == [node EXCEPT !.Left = NULL, !.Right = NULL, !.Height = 1]

node_height(m, node) == IF node = NULL THEN 0 ELSE m[node].Height

\* x->Height = max(node_height(x->Left), node_height(x->Right)) + 1
SetHeight(m, x) ==
  [m EXCEPT ![x].Height = max(node_height(m, m[x].Left), node_height(m, m[x].Right)) + 1]

\* A right rotation that recomputes the height of y but not that of x.
node_rightRotate_staleHeight(m, x) ==
  With(m[x].Left, LAMBDA y :
    [m    |-> SetHeight([m EXCEPT ![y].Right = x, ![x].Left = m[y].Right], y),
     root |-> y])

node_rightRotate(m, x) ==
  With(m[x].Left, LAMBDA y :
    [m    |-> SetHeight(SetHeight([m EXCEPT ![y].Right = x, ![x].Left = m[y].Right], x), y),
     root |-> y])

\* A left rotation that forgets to re-attach y's left subtree to x.
node_leftRotate_dropZ(m, x) ==
  With(m[x].Right, LAMBDA y :
    [m    |-> SetHeight(SetHeight([m EXCEPT ![y].Left = x, ![x].Right = NULL], x), y),
     root |-> y])

node_leftRotate(m, x) ==
  With(m[x].Right, LAMBDA y :
    [m    |-> SetHeight(SetHeight([m EXCEPT ![y].Left = x, ![x].Right = m[y].Left], x), y),
     root |-> y])

node_balance(m, node) ==
  IF node = NULL THEN 0
  ELSE node_height(m, m[node].Left) - node_height(m, m[node].Right)

\* tree_Insert after the recursive call: the height of root and the four
\* rotation cases.
tree_Insert_balance(m, root, other) ==
  With(node_balance(m, root), LAMBDA balance :
    IF balance > 1 /\ m[other].Key < m[m[root].Left].Key
    THEN node_rightRotate(m, root)
    ELSE IF balance < -1 /\ m[other].Key > m[m[root].Right].Key
    THEN node_leftRotate(m, root)
    ELSE IF balance > 1 /\ m[other].Key > m[m[root].Left].Key
    THEN With(node_leftRotate(m, m[root].Left), LAMBDA l :
           node_rightRotate([l.m EXCEPT ![root].Left = l.root], root))
    ELSE IF balance < -1 /\ m[other].Key < m[m[root].Right].Key
    THEN With(node_rightRotate(m, m[root].Right), LAMBDA r :
           node_leftRotate([r.m EXCEPT ![root].Right = r.root], root))
    ELSE [m |-> m, root |-> root])

RECURSIVE tree_Insert(_, _, _)
tree_Insert(m, root, other) ==
  IF root = NULL THEN [m |-> m, root |-> other]
  ELSE IF m[other].Key < m[root].Key
  THEN With(tree_Insert(m, m[root].Left, other), LAMBDA r :
         tree_Insert_balance(SetHeight([r.m EXCEPT ![root].Left = r.root], root), root, other))
  ELSE IF m[other].Key > m[root].Key
  THEN With(tree_Insert(m, m[root].Right, other), LAMBDA r :
         tree_Insert_balance(SetHeight([r.m EXCEPT ![root].Right = r.root], root), root, other))
  ELSE [m |-> m, root |-> root]

\* tree_Iter: the nodes in the order the callback f is applied to them.
RECURSIVE tree_Iter(_, _)
tree_Iter(m, root) ==
  IF root = NULL THEN <<>>
  ELSE tree_Iter(m, m[root].Left) \o <<root>> \o tree_Iter(m, m[root].Right)

KeysOf(m, nodes) == [i \in 1..Len(nodes) |-> m[nodes[i]].Key]

(***************************************************************************)
(* The heap of name texts.  A pointer to a text allocated by source_Text  *)
(* is [text, copy]: the bytes written at allocation and a number telling   *)
(* apart the copies of the same bytes.  heap maps every pointer that is    *)
(* still held somewhere to "live" or "freed".                              *)
(***************************************************************************)
\* The key of an entry after map_Merge has cleared it: e->Key = NULL.
NullText == [text |-> <<>>, copy |-> 0]

IsFreed(hp, p) == p \in DOMAIN hp /\ hp[p] = "freed"

\* allocate: a block distinct from every block still referred to.
allocate(hp, text) ==
  LET used == {q.copy : q \in {x \in DOMAIN hp : x.text = text}}
      n    == CHOOSE k \in 1..(Cardinality(used) + 1) : k \notin used
  IN  [text |-> text, copy |-> n]

HeapWith(hp, p) == [q \in DOMAIN hp \cup {p} |-> IF q = p THEN "live" ELSE hp[q]]

\* free(p): releasing a block that is already released is a double free.
free(hp, p) ==
  IF IsFreed(hp, p)
  THEN [heap |-> hp, ub |-> {"double_free"}]
  ELSE [heap |-> [q \in DOMAIN hp \cup {p} |-> IF q = p THEN "freed" ELSE hp[q]],
        ub |-> {}]

\* A block no pointer refers to any more cannot be observed: it is dropped.
Forget(hp, refs) == [q \in DOMAIN hp \cap refs |-> hp[q]]

(***************************************************************************)
(* Undefined behaviour.  An access outside the bucket array, a read of a   *)
(* released text and a second release have no defined outcome; an oracle   *)
(* chosen by the environment decides it: the process dies (crash), a       *)
(* released text compares equal or not (eq) and hashes to an arbitrary     *)
(* bucket (idx).  A read outside the array that does not crash finds no    *)
(* entry, a write outside it is lost.                                      *)
(***************************************************************************)
Oracles == [crash : BOOLEAN, eq : BOOLEAN, idx : {0, 1}]

(***************************************************************************)
(* Symbol table: struct map, a chain being the sequence of the entries of  *)
(* a bucket from its head.  Buckets holds as many chains as slots were     *)
(* allocated; bucket i of the C array is Buckets[i + 1].                   *)
(***************************************************************************)
MapInitCap == 8

\* The value read from a struct map that was never written: only Cap is read.
UninitCaps == {0, 3, 8}

UninitMap(cap) == [Buckets |-> <<>>, Size |-> 0, Cap |-> cap]

\* map_Default: the bucket array is allocated with the Cap found in the
\* struct, and only then Cap is set.
map_Default(m) ==
  [Buckets |-> [i \in 1..m.Cap |-> <<>>], Size |-> 0, Cap |-> MapInitCap]

\* The loop of map_hash, "for (char c = *key; c != '\0'; c++) h = h * 31 + c":
\* c starts at the first byte and is itself incremented until the char wraps
\* to 0, so the bytes c, c + 1, ..., 255 are fed in, whatever follows the
\* first byte of the key.  Feeding the bytes lo..hi maps h to h * mul + add;
\* the range is halved to keep the evaluation shallow.  h is kept modulo cap,
\* which agrees with the 64-bit h of the code (and with a signed char, whose
\* negative values are converted to size_t) because every capacity is a
\* power of two not above 256.
RECURSIVE hash_range(_, _, _)
hash_range(lo, hi, cap) ==
  IF lo = hi THEN [mul |-> 31 % cap, add |-> lo % cap]
  ELSE With(hash_range(lo, (lo + hi) \div 2, cap), LAMBDA l :
       With(hash_range((lo + hi) \div 2 + 1, hi, cap), LAMBDA r :
         [mul |-> (l.mul * r.mul) % cap, add |-> (l.add * r.mul + r.add) % cap]))

map_hash_loop(c, cap) == IF c = 0 THEN 0 ELSE hash_range(c, 255, cap).add

\* map_hash_loop tabulated once for the capacities and bytes of the model.
HashCaps == {MapInitCap, MapInitCap * 2, MapInitCap * 4}
HashTable == [cap \in HashCaps |-> [c \in 0..127 |-> map_hash_loop(c, cap)]]

\* map_hash on a text that is still allocated: *key is its first byte (0 for
\* the empty string).
HashText(text, cap) == HashTable[cap][IF text = <<>> THEN 0 ELSE text[1]]

map_hash(hp, key, cap, o) ==
  IF IsFreed(hp, key)
  THEN [h |-> o.idx % cap, ub |-> {"uaf"}]
  ELSE [h |-> HashText(key.text, cap), ub |-> {}]

\* strcmp(a, b) == 0
StrEq(hp, a, b, o) ==
  IF IsFreed(hp, a) \/ IsFreed(hp, b)
  THEN [eq |-> o.eq, ub |-> {"uaf"}]
  ELSE [eq |-> a.text = b.text, ub |-> {}]

\* The walk "while (e) { if (strcmp(e->Key, key) == 0) ...; e = e->Next; }":
\* the position of the first entry whose key compares equal, or 0.
RECURSIVE chain_find(_, _, _, _, _)
chain_find(hp, chain, i, key, o) ==
  IF i > Len(chain) THEN [at |-> 0, ub |-> {}]
  ELSE With(StrEq(hp, chain[i].Key, key, o), LAMBDA c :
         IF c.eq THEN [at |-> i, ub |-> c.ub]
         ELSE With(chain_find(hp, chain, i + 1, key, o), LAMBDA rest :
                [at |-> rest.at, ub |-> c.ub \cup rest.ub]))

\* m->Buckets[index], read.
BucketAt(m, index) ==
  IF index + 1 <= Len(m.Buckets)
  THEN [chain |-> m.Buckets[index + 1], ub |-> {}]
  ELSE [chain |-> <<>>, ub |-> {"oob"}]

\* m->Buckets[index] = chain
SetBucket(buckets, index, chain) ==
  IF index + 1 <= Len(buckets)
  THEN [buckets EXCEPT ![index + 1] = chain]
  ELSE buckets

\* The entries of a table in the order map_rehash, map_Free and map_Merge
\* visit them: bucket by bucket, each chain from its head.
RECURSIVE EntriesFrom(_, _)
EntriesFrom(m, i) ==
  IF i >= m.Cap THEN <<>>
  ELSE BucketAt(m, i).chain \o EntriesFrom(m, i + 1)

BucketsUB(m) == IF Len(m.Buckets) < m.Cap THEN {"oob"} ELSE {}

RECURSIVE rehash_relink(_, _, _, _, _, _)
rehash_relink(hp, es, i, nb, newCap, o) ==
  IF i > Len(es) THEN [buckets |-> nb, ub |-> {}]
  ELSE With(map_hash(hp, es[i].Key, newCap, o), LAMBDA hh :
       With(rehash_relink(hp, es, i + 1, [nb EXCEPT ![hh.h + 1] = <<es[i]>> \o @], newCap, o),
            LAMBDA rest : [buckets |-> rest.buckets, ub |-> hh.ub \cup rest.ub]))

map_rehash(hp, m, o) ==
  With(rehash_relink(hp, EntriesFrom(m, 0), 1, [i \in 1..(m.Cap * 2) |-> <<>>], m.Cap * 2, o),
       LAMBDA r : [m  |-> [Buckets |-> r.buckets, Size |-> m.Size, Cap |-> m.Cap * 2],
                   ub |-> BucketsUB(m) \cup r.ub])

map_Set(hp, m, key, val, o) ==
  With(IF m.Size >= m.Cap THEN map_rehash(hp, m, o) ELSE [m |-> m, ub |-> {}], LAMBDA rh :
  With(map_hash(hp, key, rh.m.Cap, o), LAMBDA hh :
  With(BucketAt(rh.m, hh.h), LAMBDA b :
  With(chain_find(hp, b.chain, 1, key, o), LAMBDA f :
    [m   |-> IF f.at > 0
             THEN [rh.m EXCEPT !.Buckets[hh.h + 1][f.at].Val = val]
             ELSE [rh.m EXCEPT
                     !.Buckets = SetBucket(@, hh.h, <<[Key |-> key, Val |-> val]>> \o b.chain),
                     !.Size = @ + 1],
     ret |-> f.at > 0,
     ub  |-> rh.ub \cup hh.ub \cup b.ub \cup f.ub]))))

map_Get(hp, m, key, o) ==
  With(map_hash(hp, key, m.Cap, o), LAMBDA hh :
  With(BucketAt(m, hh.h), LAMBDA b :
  With(chain_find(hp, b.chain, 1, key, o), LAMBDA f :
    [ret |-> f.at > 0,
     val |-> IF f.at > 0 THEN b.chain[f.at].Val ELSE 0,
     ub  |-> hh.ub \cup b.ub \cup f.ub])))

\* The loop of map_Free over the entries: free(e->Key) when Key is not NULL.
RECURSIVE free_keys(_, _, _)
free_keys(hp, es, i) ==
  IF i > Len(es) THEN [heap |-> hp, ub |-> {}]
  ELSE IF es[i].Key = NullText THEN free_keys(hp, es, i + 1)
  ELSE With(free(hp, es[i].Key), LAMBDA f :
       With(free_keys(f.heap, es, i + 1), LAMBDA rest :
         [heap |-> rest.heap, ub |-> f.ub \cup rest.ub]))

map_Free(hp, m) ==
  With(free_keys(hp, EntriesFrom(m, 0), 1), LAMBDA f :
    [m    |-> [m EXCEPT !.Buckets = <<>>],
     heap |-> f.heap,
     ub   |-> BucketsUB(m) \cup f.ub])

\* The loop of map_Merge: every entry of rhs is set into lhs; a key lhs
\* already held is released and cleared in the rhs entry.
RECURSIVE merge_entries(_, _, _, _, _)
merge_entries(hp, lhs, es, i, o) ==
  IF i > Len(es) THEN [heap |-> hp, lhs |-> lhs, es |-> es, ub |-> {}]
  ELSE With(map_Set(hp, lhs, es[i].Key, es[i].Val, o), LAMBDA st :
       With(IF st.ret THEN free(hp, es[i].Key) ELSE [heap |-> hp, ub |-> {}], LAMBDA fr :
       With(merge_entries(fr.heap, st.m,
                          IF st.ret THEN [es EXCEPT ![i].Key = NullText] ELSE es, i + 1, o),
            LAMBDA rest :
              [heap |-> rest.heap, lhs |-> rest.lhs, es |-> rest.es,
               ub |-> st.ub \cup fr.ub \cup rest.ub])))

map_Merge(hp, lhs, rhs, o) ==
  With(merge_entries(hp, lhs, EntriesFrom(rhs, 0), 1, o), LAMBDA mg :
  With(free_keys(mg.heap, mg.es, 1), LAMBDA fk :
    [lhs  |-> mg.lhs,
     rhs  |-> [rhs EXCEPT !.Buckets = <<>>],
     heap |-> fk.heap,
     ub   |-> BucketsUB(rhs) \cup mg.ub \cup fk.ub]))

\* The keys a table refers to.
KeysIn(m) ==
  UNION {{m.Buckets[i][j].Key : j \in 1..Len(m.Buckets[i])} : i \in 1..Len(m.Buckets)}
    \ {NullText}

(***************************************************************************)
(* The identifier counter.                                                 *)
(***************************************************************************)
\* newUID: nextUID++; return nextUID.  The result is both the new counter
\* and the value returned.
newUID(uid) == uid + 1

(***************************************************************************)
(* struct loc and struct Source.  The operators that read the file take    *)
(* its text f.  A character is its code, and -1 where the C code gets -1.  *)
(***************************************************************************)
loc_Default == [Pos |-> 0, Ln |-> 1, Col |-> 1]

loc_NextLine(l) == [Pos |-> l.Pos + 1, Ln |-> l.Ln + 1, Col |-> 1]

loc_NextColumn(l) == [Pos |-> l.Pos + 1, Ln |-> l.Ln, Col |-> l.Col + 1]

source_Init ==
  [Loc |-> loc_Default, Failed |-> FALSE, Atom |-> FALSE, NewlineSensitive |-> FALSE]

source_Size(f) == Len(f)

\* fgets(text, size, file) at offset pos: at most size - 1 characters, up to
\* and including the first newline.
RECURSIVE fgets(_, _, _)
fgets(f, pos, size) ==
  IF size <= 1 \/ pos >= Len(f) THEN <<>>
  ELSE IF f[pos + 1] = 10 THEN <<10>>
  ELSE <<f[pos + 1]>> \o fgets(f, pos + 1, size - 1)

source_Text(f, span) == fgets(f, span.Start.Pos, span.End.Pos - span.Start.Pos + 1)

source_Peek(f, s) == IF s.Loc.Pos < Len(f) THEN f[s.Loc.Pos + 1] ELSE -1

\* source_Next: the cursor after the call and the character returned.
source_Next(f, s) ==
  With(source_Peek(f, s), LAMBDA next :
    IF next < 0 THEN [s |-> s, c |-> -1]
    ELSE IF next = 10 THEN [s |-> [s EXCEPT !.Loc = loc_NextLine(@)], c |-> next]
    ELSE [s |-> [s EXCEPT !.Loc = loc_NextColumn(@)], c |-> next])

\* source_Back without the assignment of the location.
source_Back_flagOnly(s, loc) == [s EXCEPT !.Failed = FALSE]

source_Back(s, loc) == [s EXCEPT !.Loc = loc, !.Failed = FALSE]

source_Eat(f, s, c) ==
  With(source_Next(f, s), LAMBDA n :
    IF n.c # c THEN [n.s EXCEPT !.Failed = TRUE] ELSE n.s)

isspace(c) == c \in {9, 10, 11, 12, 13, 32}
islower(c) == c \in 97..122
isalpha(c) == c \in (65..90) \cup (97..122)

RECURSIVE source_SkipSpaces(_, _)
source_SkipSpaces(f, s) ==
  With(source_Peek(f, s), LAMBDA c :
    IF c < 0 \/ (s.NewlineSensitive /\ c = 10) \/ ~isspace(c) THEN s
    ELSE source_SkipSpaces(f, source_Eat(f, s, c)))

(***************************************************************************)
(* The parsers that call no other parser.                                  *)
(***************************************************************************)
soi(s) == IF s.Loc.Pos # 0 THEN [s EXCEPT !.Failed = TRUE] ELSE s

eoi(f, s) == IF s.Loc.Pos # source_Size(f) THEN [s EXCEPT !.Failed = TRUE] ELSE s

\* The loop of word from character i of w on.
RECURSIVE word_from(_, _, _, _)
word_from(f, w, i, s) ==
  IF i > Len(w) THEN s
  ELSE With(source_Eat(f, s, w[i]), LAMBDA s1 :
         IF s1.Failed THEN s1 ELSE word_from(f, w, i + 1, s1))

word(f, w, s) == word_from(f, w, 1, s)

range(f, r, s) ==
  With(source_Peek(f, s), LAMBDA c :
    IF c < r.From \/ c > r.To THEN [s EXCEPT !.Failed = TRUE]
    ELSE source_Eat(f, s, c))

\* The second loop of parseLowercase.
RECURSIVE parseLowercase_rest(_, _)
parseLowercase_rest(f, s) ==
  With(source_Peek(f, s), LAMBDA c :
    IF ~(islower(c) /\ isalpha(c)) /\ c # 95 THEN s
    ELSE parseLowercase_rest(f, source_Eat(f, s, c)))

\* parseLowercase: the cursor after the call, and the span stored in *span
\* (Undef when nothing is stored).
parseLowercase(f, s) ==
  With(source_Peek(f, s), LAMBDA first :
    IF first < 0 \/ ~islower(first) \/ ~isalpha(first)
    THEN [s |-> [s EXCEPT !.Failed = TRUE], span |-> Undef]
    ELSE With(parseLowercase_rest(f, source_Eat(f, s, first)), LAMBDA s1 :
           [s |-> s1, span |-> [Start |-> s.Loc, End |-> s1.Loc]]))

(***************************************************************************)
(* struct Parser: the function Parse points to, and its context.           *)
(***************************************************************************)
Parser(parse, ctx) == [Parse |-> parse, Ctx |-> ctx]

Soi == Parser("soi", Undef)
Eoi == Parser("eoi", Undef)
LParen == Parser("word", Txt(<<"(">>))
RParen == Parser("word", Txt(<<")">>))
Comma == Parser("word", Txt(<<",">>))
Under == Parser("word", Txt(<<"_">>))
Newline == Parser("word", Txt(<<"\n">>))
Semicolon == Parser("word", Txt(<<";">>))
Assign == Parser("word", Txt(<<"=">>))
If == Parser("word", Txt(<<"i", "f">>))
Then == Parser("word", Txt(<<"t", "h", "e", "n">>))
Else == Parser("word", Txt(<<"e", "l", "s", "e">>))
Arrow == Parser("word", Txt(<<"=", ">">>))
Unit == Parser("word", Txt(<<"(", ")">>))
False == Parser("word", Txt(<<"f", "a", "l", "s", "e">>))
True == Parser("word", Txt(<<"t", "r", "u", "e">>))
AsciiDigit == Parser("range", [From |-> 48, To |-> 57])
EndSymbols == <<Semicolon, Newline>>
End == Parser("any", EndSymbols)

(***************************************************************************)
(* The call stack.  A frame is [fn, ctx, pc] and the locals of fn: fn is   *)
(* the function, ctx its argument, pc = 0 before its first statement.      *)
(***************************************************************************)
Top == stack[Len(stack)]

Running(fn) == ~crashed /\ stack # <<>> /\ Top.fn = fn

\* The frame of fn(ctx, s), and of parser->Parse(&parser->Ctx, s).
Enter(fn, ctx) == [fn |-> fn, ctx |-> ctx, pc |-> 0]
Frame(parser) == Enter(parser.Parse, parser.Ctx)

\* return; / the running function goes on as frame fr and calls callee; /
\* "return callee": the running function is replaced by the one it calls.
Return == SubSeq(stack, 1, Len(stack) - 1)
Call(fr, callee) == Append([stack EXCEPT ![Len(stack)] = fr], callee)
Become(callee) == [stack EXCEPT ![Len(stack)] = callee]

\* A step of the parser: the cursor, the stack, the memory and the counter
\* after it.  The steps taken under main are counted.
ParseStep(s2, stack2, mem2, uid2) ==
  /\ steps' = IF stack[1].fn = "main" THEN steps + 1 ELSE steps
  /\ src' = s2
  /\ stack' = stack2
  /\ mem' = mem2
  /\ nextUID' = uid2
  /\ UNCHANGED <<file, res, heap, fault, crashed, firstErr,
                 regs, created, tabs, lastSet, got, visited, threads>>

(***************************************************************************)
(* The parser combinators.                                                 *)
(***************************************************************************)
Step_soi == Running("soi") /\ ParseStep(soi(src), Return, mem, nextUID)

Step_eoi == Running("eoi") /\ ParseStep(eoi(file, src), Return, mem, nextUID)

Step_word == Running("word") /\ ParseStep(word(file, Top.ctx, src), Return, mem, nextUID)

Step_range == Running("range") /\ ParseStep(range(file, Top.ctx, src), Return, mem, nextUID)

\* The two flags of the cursor; the frames of parseAtom and parseEnd keep, as
\* history, the flags they were entered with.
Flags(s) == [Atom |-> s.Atom, NewlineSensitive |-> s.NewlineSensitive]

\* parseAtom(parser, s): ctx is the parser; atom is the local of that name.
Step_parseAtom ==
  /\ Running("parseAtom")
  /\ IF Top.pc = 0
     THEN ParseStep([src EXCEPT !.Atom = TRUE],
                    Call([fn |-> "parseAtom", ctx |-> Top.ctx, pc |-> 1, atom |-> src.Atom,
                          flags |-> Flags(src)],
                         Frame(Top.ctx)),
                    mem, nextUID)
     ELSE ParseStep([src EXCEPT !.Atom = Top.atom], Return, mem, nextUID)

\* parseAll(parsers, s): ctx is the array; pc is the number of the parser
\* that was called last.
Step_parseAll ==
  /\ Running("parseAll")
  /\ IF Top.pc = 0
     THEN IF Len(Top.ctx) = 0
          THEN ParseStep(src, Return, mem, nextUID)
          ELSE ParseStep(src, Call([Top EXCEPT !.pc = 1], Frame(Top.ctx[1])), mem, nextUID)
     ELSE IF src.Failed \/ Top.pc = Len(Top.ctx)
          THEN ParseStep(src, Return, mem, nextUID)
          ELSE ParseStep(IF ~src.Atom THEN source_SkipSpaces(file, src) ELSE src,
                         Call([Top EXCEPT !.pc = @ + 1], Frame(Top.ctx[Top.pc + 1])),
                         mem, nextUID)

Step_all == Running("all") /\ ParseStep(src, Become(Enter("parseAll", Top.ctx)), mem, nextUID)

\* The exit of parseAny without its last assignment.
parseAny_exhausted_silent(s) == s

\* The exit of parseAny after its loop: s->Failed = true.
parseAny_exhausted(s) == [s EXCEPT !.Failed = TRUE]

\* parseAny(parsers, s): ctx is the array; pc is the number of the branch
\* that was called last; loc is the local of that name.  History kept in the
\* frame: moved, whether a branch that failed had left the cursor elsewhere.
Step_parseAny ==
  /\ Running("parseAny")
  /\ IF Top.pc = 0
     THEN IF Len(Top.ctx) = 0
          THEN ParseStep(parseAny_exhausted(src), Return, mem, nextUID)
          ELSE ParseStep(src,
                         Call([fn |-> "parseAny", ctx |-> Top.ctx, pc |-> 1, loc |-> src.Loc,
                               moved |-> FALSE],
                              Frame(Top.ctx[1])),
                         mem, nextUID)
     ELSE IF ~src.Failed
          THEN ParseStep(src, Return, mem, nextUID)
          ELSE IF Top.pc = Len(Top.ctx)
               THEN ParseStep(parseAny_exhausted(source_Back(src, Top.loc)), Return,
                              mem, nextUID)
               ELSE ParseStep(source_Back(src, Top.loc),
                              Call([Top EXCEPT !.pc = @ + 1, !.moved = @ \/ src.Loc # Top.loc],
                                   Frame(Top.ctx[Top.pc + 1])),
                              mem, nextUID)

Step_any == Running("any") /\ ParseStep(src, Become(Enter("parseAny", Top.ctx)), mem, nextUID)

\* many: ctx is the parser p; loc is the local of that name.  History kept in
\* the frame: entry, the position on entry; last, the position reached by
\* the last successful p; hits, whether p succeeded at least once.
Step_many ==
  /\ Running("many")
  /\ IF Top.pc = 0
     THEN ParseStep(src,
                    Call([fn |-> "many", ctx |-> Top.ctx, pc |-> 1, loc |-> src.Loc,
                          entry |-> src.Loc, last |-> src.Loc, hits |-> FALSE],
                         Frame(Top.ctx)),
                    mem, nextUID)
     ELSE IF src.Failed
          THEN ParseStep(source_Back(src, Top.loc), Return, mem, nextUID)
          ELSE \E s2 \in {IF ~src.Atom THEN source_SkipSpaces(file, src) ELSE src} :
                 ParseStep(s2,
                           Call([Top EXCEPT !.loc = s2.Loc, !.last = src.Loc, !.hits = TRUE],
                                Frame(Top.ctx)),
                           mem, nextUID)

\* option: ctx is the parser; loc is the local of that name.
Step_option ==
  /\ Running("option")
  /\ IF Top.pc = 0
     THEN ParseStep(src,
                    Call([fn |-> "option", ctx |-> Top.ctx, pc |-> 1, loc |-> src.Loc],
                         Frame(Top.ctx)),
                    mem, nextUID)
     ELSE ParseStep(IF src.Failed THEN source_Back(src, Top.loc) ELSE src, Return,
                    mem, nextUID)

\* parseEnd without the assignment that puts NewlineSensitive back.
Step_parseEnd_keepsSensitive ==
  /\ Running("parseEnd")
  /\ IF Top.pc = 0
     THEN ParseStep(source_SkipSpaces(file, [src EXCEPT !.NewlineSensitive = TRUE]),
                    Call([fn |-> "parseEnd", ctx |-> Undef, pc |-> 1,
                          sensitive |-> src.NewlineSensitive, flags |-> Flags(src)],
                         Frame(End)),
                    mem, nextUID)
     ELSE ParseStep(src, Return, mem, nextUID)

\* parseEnd(s): sensitive is the local of that name.
Step_parseEnd ==
  /\ Running("parseEnd")
  /\ IF Top.pc = 0
     THEN ParseStep(source_SkipSpaces(file, [src EXCEPT !.NewlineSensitive = TRUE]),
                    Call([fn |-> "parseEnd", ctx |-> Undef, pc |-> 1,
                          sensitive |-> src.NewlineSensitive, flags |-> Flags(src)],
                         Frame(End)),
                    mem, nextUID)
     ELSE ParseStep([src EXCEPT !.NewlineSensitive = Top.sensitive], Return, mem, nextUID)

(***************************************************************************)
(* The syntax tree.  struct Expr is [kind, data]; data is the member of    *)
(* union ExprData that was written last.  A slice is the sequence of its   *)
(* elements.                                                               *)
(***************************************************************************)
UndefExpr == [kind |-> "Undef", data |-> Undef]

slice_Init == <<>>

slice_Append(m, slice, value) == Store(m, slice, Append(Load(m, slice), value))

\* The objects as new(...) returns them.
NewApp == [F |-> UndefExpr, Args |-> Undef]
NewIte == [i |-> UndefExpr, t |-> UndefExpr, e |-> UndefExpr]
NewLambda == [Params |-> Undef, Body |-> UndefExpr]
NewParam == [Left |-> Undef, Right |-> Undef, Key |-> Undef, Height |-> Undef,
             Name |-> Undef]
NewDef == [Left |-> Undef, Right |-> Undef, Key |-> Undef, Height |-> Undef,
           Name |-> Undef, Params |-> Undef, Kind |-> Undef, Ret |-> UndefExpr]
NewProgram == [Defs |-> Undef]

App_Default(a) == [a EXCEPT !.Args = slice_Init]
Lambda_Default(lam) == [lam EXCEPT !.Params = NULL]
Def_Default(d) == [node_Default(d) EXCEPT !.Params = NULL]
Program_Default(p) == [p EXCEPT !.Defs = NULL]

Field(obj, fld) == [obj |-> obj, fld |-> fld]

(***************************************************************************)
(* The parser arrays the grammar functions build on their stack.           *)
(***************************************************************************)
\* Args: branches, for the slice ctx->Slice.
Args_branches(slice) ==
  << Parser("all", <<LParen, RParen>>),
     Parser("all", <<LParen, Parser("Arg", slice),
                     Parser("many", Parser("all", <<Comma, Parser("Arg", slice)>>)),
                     RParen>>) >>

\* Expr_app: parsers, for the object app.
Expr_app_parsers(app) ==
  << Parser("any", <<Parser("Expr_ref", Field(app, "F")),
                     Parser("Expr_paren", Field(app, "F"))>>),
     Parser("Args", Field(app, "Args")) >>

\* The parsers of Expr_ite with the slots of the two branches exchanged.
Expr_ite_parsers_swapped(ite) ==
  << If, Parser("Expr", Field(ite, "i")), Then, Parser("Expr", Field(ite, "e")),
     Else, Parser("Expr", Field(ite, "t")) >>

Expr_ite_parsers(ite) ==
  << If, Parser("Expr", Field(ite, "i")), Then, Parser("Expr", Field(ite, "t")),
     Else, Parser("Expr", Field(ite, "e")) >>

\* The branches of Params with a first branch that takes one parameter before
\* it finds the list goes on.
Params_branches_oneFirst(nodes) ==
  << Parser("all", <<LParen, Parser("Param", nodes), RParen>>),
     Parser("all", <<LParen, Parser("Param", nodes),
                     Parser("many", Parser("all", <<Comma, Parser("Param", nodes)>>)),
                     RParen>>) >>

Params_branches(nodes) ==
  << Parser("all", <<LParen, RParen>>),
     Parser("all", <<LParen, Parser("Param", nodes),
                     Parser("many", Parser("all", <<Comma, Parser("Param", nodes)>>)),
                     RParen>>) >>

Expr_lambda_parsers(lam) ==
  << Parser("Params", Field(lam, "Params")), Arrow, Parser("Expr", Field(lam, "Body")) >>

\* The digits of decimalDigits with a repetition whose parser may succeed on
\* no character.
decimalDigits_digits_optional ==
  << AsciiDigit, Parser("many", Parser("option", AsciiDigit)) >>

decimalDigits_digits ==
  << AsciiDigit,
     Parser("many", Parser("all", <<Parser("option", Under), AsciiDigit>>)) >>

ParseExpr_branches(expr) ==
  << Parser("Expr_app", expr), Parser("Expr_ite", expr), Parser("Expr_lambda", expr),
     Parser("Expr_number", expr), Parser("Expr_unit", expr), Parser("Expr_false", expr),
     Parser("Expr_true", expr), Parser("Expr_ref", expr), Parser("Expr_paren", expr) >>

Fn_parsers(d) ==
  << Parser("lowercase", Field(d, "Name")), Parser("Params", Field(d, "Params")),
     Parser("Expr", Field(d, "Ret")) >>

Val_parsers(d) ==
  << Parser("lowercase", Field(d, "Name")), Assign, Parser("Expr", Field(d, "Ret")) >>

Def_branches(d) == << Parser("Fn", d), Parser("Val", d) >>

ParseProgram_parsers(defs) == << Soi, Parser("many", Parser("Def", defs)), Eoi >>

(***************************************************************************)
(* The grammar.  ctx is the pointer the C function finds in its context.   *)
(***************************************************************************)
Step_lowercase ==
  /\ Running("lowercase")
  /\ \E r \in {parseLowercase(file, src)} :
       ParseStep(r.s, Return,
                 IF r.span = Undef THEN mem ELSE Store(mem, Top.ctx, r.span), nextUID)

Step_Expr ==
  Running("Expr") /\ ParseStep(src, Become(Enter("ParseExpr", Top.ctx)), mem, nextUID)

Step_ParseExpr ==
  /\ Running("ParseExpr")
  /\ ParseStep(src, Become(Enter("parseAny", ParseExpr_branches(Top.ctx))), mem, nextUID)

\* Arg: a is the address of the local of that name.
Step_Arg ==
  /\ Running("Arg")
  /\ IF Top.pc = 0
     THEN ParseStep(src,
                    Call([fn |-> "Arg", ctx |-> Top.ctx, pc |-> 1, a |-> new(mem)],
                         Enter("ParseExpr", Field(new(mem), "a"))),
                    Alloc(mem, [a |-> UndefExpr]), nextUID)
     ELSE ParseStep(src, Return,
                    Release(IF ~src.Failed
                            THEN slice_Append(mem, Top.ctx, mem[Top.a].a) ELSE mem,
                            Top.a),
                    nextUID)

Step_Args ==
  /\ Running("Args")
  /\ ParseStep(src, Become(Enter("parseAny", Args_branches(Top.ctx))), mem, nextUID)

Step_Expr_app ==
  /\ Running("Expr_app")
  /\ IF Top.pc = 0
     THEN ParseStep(src,
                    Call([fn |-> "Expr_app", ctx |-> Top.ctx, pc |-> 1, app |-> new(mem)],
                         Enter("parseAll", Expr_app_parsers(new(mem)))),
                    Alloc(mem, App_Default(NewApp)), nextUID)
     ELSE ParseStep(src, Return,
                    IF src.Failed THEN Release(mem, Top.app)
                    ELSE Store(mem, Top.ctx, [kind |-> "Expr_App", data |-> Top.app]),
                    nextUID)

Step_Expr_ite ==
  /\ Running("Expr_ite")
  /\ IF Top.pc = 0
     THEN ParseStep(src,
                    Call([fn |-> "Expr_ite", ctx |-> Top.ctx, pc |-> 1, ite |-> new(mem)],
                         Enter("parseAll", Expr_ite_parsers(new(mem)))),
                    Alloc(mem, NewIte), nextUID)
     ELSE ParseStep(src, Return,
                    IF src.Failed THEN Release(mem, Top.ite)
                    ELSE Store(mem, Top.ctx, [kind |-> "Expr_Ite", data |-> Top.ite]),
                    nextUID)

\* Param: the new parameter gets its key from newUID and enters *ctx->Nodes.
Step_Param ==
  /\ Running("Param")
  /\ \E r \in {parseLowercase(file, src)} :
       IF r.s.Failed
       THEN ParseStep(r.s, Return, mem, nextUID)
       ELSE \E t \in {tree_Insert(Alloc(mem, [node_Default(NewParam) EXCEPT
                                               !.Name = r.span, !.Key = newUID(nextUID)]),
                                  Load(mem, Top.ctx), new(mem))} :
              ParseStep(r.s, Return, Store(t.m, Top.ctx, t.root), newUID(nextUID))

Step_Params ==
  /\ Running("Params")
  /\ ParseStep(src, Become(Enter("parseAny", Params_branches(Top.ctx))), mem, nextUID)

Step_Expr_lambda ==
  /\ Running("Expr_lambda")
  /\ IF Top.pc = 0
     THEN ParseStep(src,
                    Call([fn |-> "Expr_lambda", ctx |-> Top.ctx, pc |-> 1, lam |-> new(mem)],
                         Enter("parseAll", Expr_lambda_parsers(new(mem)))),
                    Alloc(mem, Lambda_Default(NewLambda)), nextUID)
     ELSE ParseStep(src, Return,
                    IF src.Failed THEN Release(mem, Top.lam)
                    ELSE Store(mem, Top.ctx, [kind |-> "Expr_Lam", data |-> Top.lam]),
                    nextUID)

\* decimalDigits: loc is the local of that name.
Step_decimalDigits ==
  /\ Running("decimalDigits")
  /\ IF Top.pc = 0
     THEN ParseStep(src,
                    Call([fn |-> "decimalDigits", ctx |-> Top.ctx, pc |-> 1, loc |-> src.Loc],
                         Enter("parseAll", decimalDigits_digits)),
                    mem, nextUID)
     ELSE ParseStep(src, Return,
                    IF ~src.Failed
                    THEN Store(mem, Top.ctx, [Start |-> Top.loc, End |-> src.Loc])
                    ELSE mem,
                    nextUID)

Step_decimalNumber ==
  /\ Running("decimalNumber")
  /\ ParseStep(src, Become(Enter("parseAtom", Parser("decimalDigits", Top.ctx))),
               mem, nextUID)

Step_Number ==
  Running("Number") /\ ParseStep(src, Become(Enter("decimalNumber", Top.ctx)), mem, nextUID)

\* Expr_number: num is the address of the local of that name.
Step_Expr_number ==
  /\ Running("Expr_number")
  /\ IF Top.pc = 0
     THEN ParseStep(src,
                    Call([fn |-> "Expr_number", ctx |-> Top.ctx, pc |-> 1, num |-> new(mem)],
                         Enter("Number", Field(new(mem), "num"))),
                    Alloc(mem, [num |-> Undef]), nextUID)
     ELSE ParseStep(src, Return,
                    Release(IF ~src.Failed
                            THEN Store(mem, Top.ctx,
                                       [kind |-> "Expr_Num", data |-> mem[Top.num].num])
                            ELSE mem,
                            Top.num),
                    nextUID)

\* Expr_unit, Expr_false and Expr_true: the word, then the kind alone.
Expr_word(w, kind) ==
  \E s2 \in {word(file, w.Ctx, src)} :
    ParseStep(s2, Return,
              IF ~s2.Failed
              THEN Store(mem, Top.ctx, [Load(mem, Top.ctx) EXCEPT !.kind = kind])
              ELSE mem,
              nextUID)

Step_Expr_unit == Running("Expr_unit") /\ Expr_word(Unit, "Expr_Unit")

Step_Expr_false == Running("Expr_false") /\ Expr_word(False, "Expr_False")

Step_Expr_true == Running("Expr_true") /\ Expr_word(True, "Expr_True")

Step_Expr_ref ==
  /\ Running("Expr_ref")
  /\ \E r \in {parseLowercase(file, src)} :
       ParseStep(r.s, Return,
                 IF ~r.s.Failed
                 THEN Store(mem, Top.ctx, [kind |-> "Expr_Unresolved", data |-> r.span])
                 ELSE mem,
                 nextUID)

Step_Expr_paren ==
  /\ Running("Expr_paren")
  /\ ParseStep(src, Become(Enter("parseAll", <<LParen, Parser("Expr", Top.ctx), RParen>>)),
               mem, nextUID)

\* Fn and Val: ctx is the definition ctx->Def.
Step_Fn ==
  /\ Running("Fn")
  /\ IF Top.pc = 0
     THEN ParseStep(src, Call([Top EXCEPT !.pc = 1], Enter("parseAll", Fn_parsers(Top.ctx))),
                    mem, nextUID)
     ELSE IF Top.pc = 1
     THEN IF src.Failed
          THEN ParseStep(src, Return, mem, nextUID)
          ELSE ParseStep(src, Call([Top EXCEPT !.pc = 2], Enter("parseEnd", Undef)),
                         mem, nextUID)
     ELSE ParseStep(src, Return,
                    IF ~src.Failed THEN Store(mem, Field(Top.ctx, "Kind"), "Body_Fn") ELSE mem,
                    nextUID)

Step_Val ==
  /\ Running("Val")
  /\ IF Top.pc = 0
     THEN ParseStep(src, Call([Top EXCEPT !.pc = 1], Enter("parseAll", Val_parsers(Top.ctx))),
                    mem, nextUID)
     ELSE IF Top.pc = 1
     THEN IF src.Failed
          THEN ParseStep(src, Return, mem, nextUID)
          ELSE ParseStep(src, Call([Top EXCEPT !.pc = 2], Enter("parseEnd", Undef)),
                         mem, nextUID)
     ELSE ParseStep(src, Return,
                    IF ~src.Failed THEN Store(mem, Field(Top.ctx, "Kind"), "Body_Val") ELSE mem,
                    nextUID)

\* Def: d is the local of that name; ctx is ctx->Nodes.
Step_Def ==
  /\ Running("Def")
  /\ IF Top.pc = 0
     THEN ParseStep(src,
                    Call([fn |-> "Def", ctx |-> Top.ctx, pc |-> 1, d |-> new(mem)],
                         Enter("parseAny", Def_branches(new(mem)))),
                    Alloc(mem, Def_Default(NewDef)), nextUID)
     ELSE IF src.Failed
          THEN ParseStep(src, Return, Release(mem, Top.d), nextUID)
          ELSE \E t \in {tree_Insert([mem EXCEPT ![Top.d].Key = newUID(nextUID)],
                                     Load(mem, Top.ctx), Top.d)} :
                 ParseStep(src, Return, Store(t.m, Top.ctx, t.root), newUID(nextUID))

\* ParseProgram(defs, s): ctx is defs.
Step_ParseProgram ==
  /\ Running("ParseProgram")
  /\ ParseStep(src, Become(Enter("parseAll", ParseProgram_parsers(Top.ctx))), mem, nextUID)

\* The status a finished process leaves.
Exit(status) == [fn |-> "exit", ctx |-> status, pc |-> 0]

\* main up to the end of parsing: p is the address of the local of that
\* name.  After a successful parse the caller of the resolver takes over.
Step_main ==
  /\ Running("main")
  /\ IF Top.pc = 0
     THEN ParseStep(src,
                    Call([fn |-> "main", ctx |-> Undef, pc |-> 1, p |-> new(mem)],
                         Enter("ParseProgram", Field(new(mem), "Defs"))),
                    Alloc(mem, Program_Default(NewProgram)), nextUID)
     ELSE IF src.Failed
          THEN ParseStep(src, Become(Exit(1)), mem, nextUID)
          ELSE ParseStep(src, Become(Enter("resolve", Top.p)), mem, nextUID)

(***************************************************************************)
(* The resolver.  struct Resolver is res; a struct map that was never      *)
(* written is Undef, and map_Default then finds in Cap whatever the memory *)
(* held.                                                                   *)
(***************************************************************************)
NewResolver ==
  [Globals |-> Undef, Locals |-> Undef, Params |-> Undef,
   State |-> "Undef", NameSpan |-> Undef, NameText |-> Undef]

\* The struct map found at m, cap being the content of a Cap never written.
Raw(m, cap) == IF m = Undef THEN UninitMap(cap) ELSE m

Resolver_Init(r, cap) ==
  [r EXCEPT !.Globals = map_Default(Raw(@, cap)),
            !.State = "Resolution_OK",
            !.NameText = NullText]

\* Resolver_Free: the resolver and the heap after it.
Resolver_Free(hp, r) ==
  With(map_Free(hp, r.Globals), LAMBDA fg :
  With(IF r.NameText # NullText THEN free(fg.heap, r.NameText)
       ELSE [heap |-> fg.heap, ub |-> {}], LAMBDA fn :
    [r |-> [r EXCEPT !.Globals = fg.m], heap |-> fn.heap, ub |-> fg.ub \cup fn.ub]))

\* The name texts the resolver still refers to.
KeysOfMap(m) == IF "Buckets" \in DOMAIN m THEN KeysIn(m) ELSE {}
Refs(r) ==
  KeysOfMap(r.Globals) \cup KeysOfMap(r.Locals) \cup KeysOfMap(r.Params)
    \cup (IF "text" \in DOMAIN r.NameText THEN {r.NameText} ELSE {})

NoErr == [State |-> "Resolution_OK"]

\* The error a resolver in state r reports.
ErrOf(r) == [State |-> r.State, NameSpan |-> r.NameSpan, Name |-> r.NameText.text]

\* The history of the entries of Resolver_Expr after a step of the resolver:
\* the step that runs a frame of Resolver_Expr at its beginning records the
\* expression the function was called with.
Visit ==
  IF Top.fn = "Resolver_Expr" /\ Top.pc = 0 THEN Append(visited, Top.ctx) ELSE visited

\* A step of the resolver that works on the tables: the resolver, the heap,
\* the memory and the stack after it, ub the undefined behaviour it executed
\* and o the oracle that decides what that does.
ResolveStep(res2, heap2, mem2, stack2, ub, o) ==
  /\ fault' = fault \cup ub
  /\ IF ub # {} /\ o.crash
     THEN /\ crashed' = TRUE
          /\ UNCHANGED <<res, heap, mem, stack, firstErr>>
     ELSE /\ res' = res2
          /\ heap' = Forget(heap2, Refs(res2))
          /\ mem' = mem2
          /\ stack' = stack2
          /\ firstErr' = IF firstErr = NoErr /\ res2.State # "Resolution_OK"
                         THEN ErrOf(res2) ELSE firstErr
          /\ UNCHANGED crashed
  /\ visited' = Visit
  /\ UNCHANGED <<nextUID, file, src, regs, created, tabs, lastSet, got, steps, threads>>

\* A step of the resolver that only calls or returns.
WalkStep(stack2) ==
  /\ stack' = stack2
  /\ visited' = Visit
  /\ UNCHANGED <<nextUID, mem, file, src, res, heap, fault, crashed, firstErr,
                 regs, created, tabs, lastSet, got, steps, threads>>

\* The frame of tree_Iter(data, root, f) and of slice_Iter(data, s, f).
Enter_tree_Iter(root, f) == Enter("tree_Iter", [nodes |-> tree_Iter(mem, root), f |-> f])
Enter_slice_Iter(slice, f) == Enter("slice_Iter", [slice |-> slice, f |-> f])

\* tree_Iter: pc is the number of nodes f was applied to.
Step_tree_Iter ==
  /\ Running("tree_Iter")
  /\ IF Top.pc = Len(Top.ctx.nodes)
     THEN WalkStep(Return)
     ELSE WalkStep(Call([Top EXCEPT !.pc = @ + 1], Enter(Top.ctx.f, Top.ctx.nodes[Top.pc + 1])))

\* slice_Iter: pc is i.
Step_slice_Iter ==
  /\ Running("slice_Iter")
  /\ IF Top.pc = Len(Load(mem, Top.ctx.slice))
     THEN WalkStep(Return)
     ELSE WalkStep(Call([Top EXCEPT !.pc = @ + 1],
                        Enter(Top.ctx.f, [obj |-> Top.ctx.slice.obj, fld |-> Top.ctx.slice.fld,
                                          idx |-> Top.pc + 1])))

\* Resolver_resolveArg calling Resolver_Expr on its argument two times.
Step_Resolver_resolveArg_twice ==
  /\ Running("Resolver_resolveArg")
  /\ WalkStep(Call(Enter("Resolver_Expr", Top.ctx), Enter("Resolver_Expr", Top.ctx)))

Step_Resolver_resolveArg ==
  Running("Resolver_resolveArg") /\ WalkStep(Become(Enter("Resolver_Expr", Top.ctx)))

\* Resolver_validateLocal: ctx is the node.
Step_Resolver_validateLocal ==
  /\ Running("Resolver_validateLocal")
  /\ IF res.State # "Resolution_OK"
     THEN WalkStep(Return)
     ELSE \E o \in Oracles, nameText \in {allocate(heap, source_Text(file, mem[Top.ctx].Name))} :
          \E st \in {map_Set(HeapWith(heap, nameText), res.Params, nameText,
                             mem[Top.ctx].Key, o)} :
            ResolveStep(IF st.ret
                        THEN [res EXCEPT !.Params = st.m,
                                         !.State = "Resolution_Duplicate",
                                         !.NameSpan = mem[Top.ctx].Name,
                                         !.NameText = nameText]
                        ELSE [res EXCEPT !.Params = st.m],
                        HeapWith(heap, nameText), mem, Return, st.ub, o)

\* Resolver_insertLocal: ctx is the node.
Step_Resolver_insertLocal ==
  /\ Running("Resolver_insertLocal")
  /\ IF res.State # "Resolution_OK"
     THEN WalkStep(Return)
     ELSE \E o \in Oracles, nameText \in {allocate(heap, source_Text(file, mem[Top.ctx].Name))} :
          \E st \in {map_Set(HeapWith(heap, nameText), res.Locals, nameText,
                             mem[Top.ctx].Key, o)} :
          \E fr \in {IF st.ret THEN free(HeapWith(heap, nameText), nameText)
                     ELSE [heap |-> HeapWith(heap, nameText), ub |-> {}]} :
            ResolveStep([res EXCEPT !.Locals = st.m], fr.heap, mem, Return,
                        st.ub \cup fr.ub, o)

\* Resolver_insertLocals(r, params): ctx is params.
Step_Resolver_insertLocals ==
  /\ Running("Resolver_insertLocals")
  /\ IF Top.pc = 0
     THEN \E o \in Oracles, cap \in UninitCaps :
            ResolveStep([res EXCEPT !.Params = map_Default(Raw(@, cap))], heap, mem,
                        Call([Top EXCEPT !.pc = 1],
                             Enter_tree_Iter(Top.ctx, "Resolver_validateLocal")),
                        {}, o)
     ELSE IF Top.pc = 1
     THEN IF res.State # "Resolution_OK"
          THEN WalkStep(Return)
          ELSE \E o \in Oracles, cap \in UninitCaps :
               \E mg \in {map_Merge(heap, map_Default(Raw(res.Locals, cap)), res.Params, o)} :
                 ResolveStep([res EXCEPT !.Locals = mg.lhs, !.Params = mg.rhs],
                             mg.heap, mem,
                             Call([Top EXCEPT !.pc = 2],
                                  Enter_tree_Iter(Top.ctx, "Resolver_insertLocal")),
                             mg.ub, o)
     ELSE WalkStep(Return)

\* The case Expr_Unresolved of Resolver_Expr: the name is looked up in Locals,
\* then in Globals.
Resolver_Expr_lookup(hp, r, nameText, o) ==
  With(map_Get(hp, r.Locals, nameText, o), LAMBDA l :
    IF l.ret THEN l
    ELSE With(map_Get(hp, r.Globals, nameText, o), LAMBDA g :
           [ret |-> g.ret, val |-> g.val, ub |-> l.ub \cup g.ub]))

\* A rewriting that turns the reference into a number literal over the span
\* of the name.
Resolver_Expr_rewrite_asNumber(m, e, id) ==
  Store(m, e, [kind |-> "Expr_Num", data |-> Load(m, e).data])

\* e->kind = Expr_Resolved; e->data.ID = id;
Resolver_Expr_rewrite(m, e, id) ==
  Store(m, e, [kind |-> "Expr_Resolved", data |-> [ID |-> id]])

\* Resolver_Expr(r, e): ctx is e.  pc counts the calls made so far.
Step_Resolver_Expr ==
  /\ Running("Resolver_Expr")
  /\ \E e \in {Load(mem, Top.ctx)} :
     CASE e.kind = "Expr_App" ->
            IF Top.pc = 0
            THEN WalkStep(Call([Top EXCEPT !.pc = 1],
                               Enter("Resolver_Expr", Field(e.data, "F"))))
            ELSE IF Top.pc = 1 /\ res.State = "Resolution_OK"
            THEN WalkStep(Call([Top EXCEPT !.pc = 2],
                               Enter_slice_Iter(Field(e.data, "Args"), "Resolver_resolveArg")))
            ELSE WalkStep(Return)
       [] e.kind = "Expr_Ite" ->
            IF Top.pc = 0
            THEN WalkStep(Call([Top EXCEPT !.pc = 1],
                               Enter("Resolver_Expr", Field(e.data, "i"))))
            ELSE IF Top.pc = 1 /\ res.State = "Resolution_OK"
            THEN WalkStep(Call([Top EXCEPT !.pc = 2],
                               Enter("Resolver_Expr", Field(e.data, "t"))))
            ELSE IF Top.pc = 2 /\ res.State = "Resolution_OK"
            THEN WalkStep(Call([Top EXCEPT !.pc = 3],
                               Enter("Resolver_Expr", Field(e.data, "e"))))
            ELSE WalkStep(Return)
       [] e.kind = "Expr_Lam" ->
            IF Top.pc = 0
            THEN WalkStep(Call([Top EXCEPT !.pc = 1],
                               Enter("Resolver_insertLocals", mem[e.data].Params)))
            ELSE IF Top.pc = 1 /\ res.State = "Resolution_OK"
            THEN WalkStep(Call([Top EXCEPT !.pc = 2],
                               Enter("Resolver_Expr", Field(e.data, "Body"))))
            ELSE WalkStep(Return)
       [] e.kind = "Expr_Unresolved" ->
            \E o \in Oracles, nameText \in {allocate(heap, source_Text(file, e.data))} :
            \E g \in {Resolver_Expr_lookup(HeapWith(heap, nameText), res, nameText, o)} :
              IF g.ret
              THEN ResolveStep(res, free(HeapWith(heap, nameText), nameText).heap,
                               Resolver_Expr_rewrite(mem, Top.ctx, g.val),
                               Return, g.ub, o)
              ELSE ResolveStep([res EXCEPT !.State = "Resolution_NotFound",
                                           !.NameSpan = e.data,
                                           !.NameText = nameText],
                               HeapWith(heap, nameText), mem, Return, g.ub, o)
       [] e.kind \in {"Expr_Num", "Expr_Unit", "Expr_False", "Expr_True"} ->
            WalkStep(Return)
       [] OTHER ->
            \* unreachable(): panic, exit(1)
            WalkStep(<<Exit(1)>>)

\* Resolver_insertGlobal: ctx is the node.
Step_Resolver_insertGlobal ==
  /\ Running("Resolver_insertGlobal")
  /\ IF Top.pc = 0
     THEN IF res.State # "Resolution_OK"
          THEN WalkStep(Return)
          ELSE \E o \in Oracles,
                  name_text \in {allocate(heap, source_Text(file, mem[Top.ctx].Name))} :
               \E st \in {map_Set(HeapWith(heap, name_text), res.Globals, name_text,
                                  mem[Top.ctx].Key, o)} :
                 IF st.ret
                 THEN ResolveStep([res EXCEPT !.Globals = st.m,
                                              !.State = "Resolution_Duplicate",
                                              !.NameSpan = mem[Top.ctx].Name,
                                              !.NameText = name_text],
                                  HeapWith(heap, name_text), mem, Return, st.ub, o)
                 ELSE ResolveStep([res EXCEPT !.Globals = st.m],
                                  HeapWith(heap, name_text), mem,
                                  Call([Top EXCEPT !.pc = 1],
                                       Enter("Resolver_insertLocals", mem[Top.ctx].Params)),
                                  st.ub, o)
     ELSE IF Top.pc = 1
     THEN IF res.State # "Resolution_OK"
          THEN WalkStep(Return)
          ELSE WalkStep(Call([Top EXCEPT !.pc = 2],
                             Enter("Resolver_Expr", Field(Top.ctx, "Ret"))))
     ELSE \E o \in Oracles :
          \E fr \in {map_Free(heap, res.Locals)} :
            ResolveStep([res EXCEPT !.Locals = fr.m], fr.heap, mem, Return, fr.ub, o)

\* Resolver_Program(r, p): ctx is p.
Step_Resolver_Program ==
  /\ Running("Resolver_Program")
  /\ WalkStep(Become(Enter_tree_Iter(mem[Top.ctx].Defs, "Resolver_insertGlobal")))

\* The caller of the resolver: Resolver_Init(&r, &src); Resolver_Program(&r,
\* &p); Resolver_Free(&r).  ctx is the address of the program.
Step_resolve ==
  /\ Running("resolve")
  /\ IF Top.pc = 0
     THEN \E o \in Oracles, cap \in UninitCaps :
            ResolveStep(Resolver_Init(res, cap), heap, mem,
                        Call([Top EXCEPT !.pc = 1], Enter("Resolver_Program", Top.ctx)),
                        {}, o)
     ELSE \E o \in Oracles :
          \E fr \in {Resolver_Free(heap, res)} :
            ResolveStep(fr.r, fr.heap, mem, <<Exit(0)>>, fr.ub, o)

(***************************************************************************)
(* The values of the variables a specification does not use.               *)
(***************************************************************************)
ProgIdle ==
  /\ file = <<>>
  /\ src = source_Init
  /\ stack = <<>>
  /\ res = NewResolver
  /\ firstErr = NoErr

HeapIdle ==
  /\ heap = <<>>
  /\ fault = {}
  /\ crashed = FALSE

MapIdle ==
  /\ tabs = <<>>
  /\ lastSet = <<>>
  /\ got = <<>>

TreeIdle ==
  /\ regs = <<>>
  /\ created = <<>>

ThreadsIdle == threads = <<>> /\ visited = <<>> /\ steps = 0

(***************************************************************************)
(* Registry specification: entries are created with a key drawn from       *)
(* newUID and inserted at once, as Param and Def do.                       *)
(***************************************************************************)
TreeInit ==
  /\ nextUID = 0
  /\ mem = <<>>
  /\ regs = [i \in 1..NumRegs |-> NULL]
  /\ created = [i \in 1..NumRegs |-> <<>>]
  /\ ProgIdle
  /\ HeapIdle
  /\ MapIdle
  /\ ThreadsIdle

\* Param / Def: node_Default, Key = newUID(), *Nodes = tree_Insert(*Nodes, node).
TreeParam(i) ==
  /\ nextUID < MaxUID
  /\ \E t \in {tree_Insert(Alloc(mem, [node_Default(NewNode) EXCEPT
                                        !.Key = newUID(nextUID)]),
                           regs[i], new(mem))} :
       /\ nextUID' = newUID(nextUID)
       /\ mem' = t.m
       /\ regs' = [regs EXCEPT ![i] = t.root]
       /\ created' = [created EXCEPT ![i] = Append(@, newUID(nextUID))]
  /\ UNCHANGED <<file, src, stack, res, heap, fault, crashed, firstErr, tabs, lastSet, got,
               visited, steps, threads>>

TreeNext == \E i \in 1..NumRegs : TreeParam(i)

SpecTree == TreeInit /\ [][TreeNext]_vars

(***************************************************************************)
(* Symbol table specification: two tables, each initialised by            *)
(* map_Default in a struct that was never written, then set, read, merged  *)
(* (lhs takes rhs, as Locals takes Params) and re-initialised.  The caller *)
(* of map_Set owns the text it passes and releases it when the table       *)
(* reports the key as already present, as Resolver_insertLocal does.       *)
(***************************************************************************)
NameList ==
  << Txt(<<"a">>), Txt(<<"a", "b">>), Txt(<<"b">>), Txt(<<"c">>), Txt(<<"d">>) >>

Names == {NameList[i] : i \in 1..NumNames}
Vals == 1..NumVals
Tables == {"lhs", "rhs"}
mapFrame == <<nextUID, mem, file, src, stack, res, firstErr, regs, created, visited, steps, threads>>
Other(t) == IF t = "lhs" THEN "rhs" ELSE "lhs"

\* A text the caller holds itself (never released), used as a probe.
Probe(text) == [text |-> text, copy |-> 0]

MapInit ==
  /\ \E c1 \in UninitCaps, c2 \in UninitCaps :
       tabs = [lhs |-> map_Default(UninitMap(c1)), rhs |-> map_Default(UninitMap(c2))]
  /\ heap = <<>>
  /\ lastSet = [lhs |-> <<>>, rhs |-> <<>>, old |-> <<>>, src |-> <<>>, mode |-> "sets"]
  /\ got = [op |-> "init", n |-> 0]
  /\ fault = {}
  /\ crashed = FALSE
  /\ nextUID = 0
  /\ mem = <<>>
  /\ regs = <<>>
  /\ created = <<>>
  /\ ProgIdle
  /\ ThreadsIdle

Remember(h, name, val) ==
  [n \in DOMAIN h \cup {name} |-> IF n = name THEN val ELSE h[n]]

\* nameText = source_Text(...); if (map_Set(&t, nameText, val)) free(nameText);
MapSet(t, name, val) ==
  /\ ~crashed
  /\ got.n < MaxOps
  /\ \E o \in Oracles, p \in {allocate(heap, name)} :
     \E st \in {map_Set(HeapWith(heap, p), tabs[t], p, val, o)} :
     \E fr \in {IF st.ret THEN free(HeapWith(heap, p), p)
                ELSE [heap |-> HeapWith(heap, p), ub |-> {}]} :
       /\ fault' = fault \cup st.ub \cup fr.ub
       /\ IF st.ub \cup fr.ub # {} /\ o.crash
          THEN crashed' = TRUE /\ UNCHANGED <<tabs, heap, lastSet, got>>
          ELSE /\ tabs' = [tabs EXCEPT ![t] = st.m]
               /\ heap' = Forget(fr.heap, KeysIn(st.m) \cup KeysIn(tabs[Other(t)]))
               /\ lastSet' = [lastSet EXCEPT ![t] = Remember(@, name, val),
                                             !.mode = IF t = "lhs" /\ @ = "merged"
                                                      THEN "mixed" ELSE @]
               /\ got' = [op |-> "set", ret |-> st.ret, n |-> got.n + 1]
               /\ UNCHANGED crashed
  /\ UNCHANGED mapFrame

\* map_Get(&t, name, &val)
MapGet(t, name) ==
  /\ ~crashed
  /\ got.n < MaxOps
  /\ \E o \in Oracles :
     \E g \in {map_Get(heap, tabs[t], Probe(name), o)} :
       /\ fault' = fault \cup g.ub
       /\ IF g.ub # {} /\ o.crash
          THEN crashed' = TRUE /\ UNCHANGED got
          ELSE got' = [op |-> "get", name |-> name, ret |-> g.ret, val |-> g.val,
                       n |-> got.n + 1]
               /\ UNCHANGED crashed
  /\ UNCHANGED <<tabs, heap, lastSet>>
  /\ UNCHANGED mapFrame

\* map_Merge(&lhs, &rhs), then map_Default(&rhs) as the next use of rhs does.
\* lastSet.old and lastSet.src keep what lhs and rhs held before the merge;
\* lastSet.mode tells whether lhs has seen only sets since it was initialised
\* ("sets"), was last changed by a merge ("merged"), or was set after a merge.
MapMerge ==
  /\ ~crashed
  /\ got.n < MaxOps
  /\ got.op # "merge"
  /\ \E o \in Oracles :
     \E mg \in {map_Merge(heap, tabs.lhs, tabs.rhs, o)} :
       /\ fault' = fault \cup mg.ub
       /\ IF mg.ub # {} /\ o.crash
          THEN crashed' = TRUE /\ UNCHANGED <<tabs, heap, lastSet, got>>
          ELSE /\ tabs' = [lhs |-> mg.lhs, rhs |-> map_Default(mg.rhs)]
               /\ heap' = Forget(mg.heap, KeysIn(mg.lhs))
               /\ lastSet' = [lhs |-> lastSet.lhs, rhs |-> <<>>, old |-> lastSet.lhs,
                               src |-> lastSet.rhs, mode |-> "merged"]
               /\ got' = [op |-> "merge", n |-> got.n + 1]
               /\ UNCHANGED crashed
  /\ UNCHANGED mapFrame

\* map_Free(&t); map_Default(&t): the table is released and set up again.
MapRedo(t) ==
  /\ ~crashed
  /\ got.n < MaxOps
  /\ got.op # "redo"
  /\ \E o \in Oracles :
     \E fr \in {map_Free(heap, tabs[t])} :
       /\ fault' = fault \cup fr.ub
       /\ IF fr.ub # {} /\ o.crash
          THEN crashed' = TRUE /\ UNCHANGED <<tabs, heap, lastSet, got>>
          ELSE /\ tabs' = [tabs EXCEPT ![t] = map_Default(fr.m)]
               /\ heap' = Forget(fr.heap, KeysIn(tabs[Other(t)]))
               /\ lastSet' = [lastSet EXCEPT ![t] = <<>>,
                                             !.mode = IF t = "lhs" THEN "sets" ELSE @]
               /\ got' = [op |-> "redo", n |-> got.n + 1]
               /\ UNCHANGED crashed
  /\ UNCHANGED mapFrame

MapNext ==
  \/ \E t \in Tables, name \in Names, val \in Vals : MapSet(t, name, val)
  \/ \E name \in Names : MapGet("lhs", name)
  \/ MapMerge
  \/ \E t \in Tables : MapRedo(t)

SpecMap == MapInit /\ [][MapNext]_vars

(***************************************************************************)
(* Combinator specification: one parser built from word, range, all, any,  *)
(* many and option runs on a short text, with the cursor atomic or not.    *)
(***************************************************************************)
CombChars == {Ascii["a"], Ascii["b"], Ascii[" "]}
CombTexts == UNION {[1..n -> CombChars] : n \in 0..MaxLen}

Word_a == Parser("word", Txt(<<"a">>))
Word_b == Parser("word", Txt(<<"b">>))
Word_ab == Parser("word", Txt(<<"a", "b">>))
Range_ab == Parser("range", [From |-> Ascii["a"], To |-> Ascii["b"]])

CombParserList ==
  << Parser("any", <<Word_ab, Word_a>>),
     Parser("any", <<Parser("all", <<Word_a, Word_b>>), Parser("many", Word_a)>>),
     Parser("any", <<Word_b, Parser("any", <<Word_ab, Range_ab>>), Word_a>>),
     Parser("any", <<>>),
     Parser("many", Word_a),
     Parser("many", Parser("all", <<Word_a, Word_b>>)),
     Parser("many", Parser("any", <<Word_ab, Word_a>>)),
     Parser("many", Parser("option", Word_b)),
     Parser("all", <<Parser("many", Word_a), Word_b>>),
     Parser("all", <<Parser("option", Word_ab), Parser("many", Range_ab)>>) >>

CombInit ==
  /\ file \in CombTexts
  /\ \E atom \in BOOLEAN : src = [source_Init EXCEPT !.Atom = atom]
  /\ \E i \in 1..Len(CombParserList) : stack = <<Frame(CombParserList[i])>>
  /\ nextUID = 0
  /\ mem = <<>>
  /\ res = NewResolver
  /\ firstErr = NoErr
  /\ HeapIdle
  /\ TreeIdle
  /\ MapIdle
  /\ ThreadsIdle

CombNext ==
  \/ Step_word
  \/ Step_range
  \/ Step_all
  \/ Step_parseAll
  \/ Step_any
  \/ Step_parseAny
  \/ Step_many
  \/ Step_option

SpecComb == CombInit /\ [][CombNext]_vars

(***************************************************************************)
(* Program specification: main parses one of the input files, and after a  *)
(* successful parse the program is resolved.                               *)
(***************************************************************************)
Prog_id_arrow == Txt(<<"i", "d", "(", "x", ")", " ", "=", ">", " ", "x">>)
Prog_id == Txt(<<"i", "d", "(", "x", ")", " ", "x", "\n">>)
Prog_two_missing == Txt(<<"k", " ", "=", " ", "k", "(", "a", ",", " ", "b", ")", "\n">>)
Prog_missing_then_self == Txt(<<"k", " ", "=", " ", "k", "(", "a", ",", " ", "k", ")", "\n">>)
Prog_number == Txt(<<"k", " ", "=", " ", "1", "_", "0", "\n">>)
Prog_ite ==
  Txt(<<"k", " ", "=", " ", "i", "f", " ", "t", "r", "u", "e", " ", "t", "h", "e", "n",
        " ", "1", " ", "e", "l", "s", "e", " ", "0", "\n">>)
Prog_call ==
  Txt(<<"f", "(", "x", ",", " ", "y", ")", " ", "x", "\n",
        "g", " ", "=", " ", "f", "(", "(", ")", ",", " ", "f", "a", "l", "s", "e", ")", ";">>)
Prog_lambda == Txt(<<"k", " ", "=", " ", "(", "x", ")", " ", "=", ">", " ", "x", "\n">>)
Prog_paren == Txt(<<"k", " ", "=", " ", "(", "1", ")", "\n">>)
Prog_dup_param == Txt(<<"f", "(", "x", ",", " ", "x", ")", " ", "x", "\n">>)
Prog_dup_def == Txt(<<"k", " ", "=", " ", "1", ";", "k", " ", "=", " ", "2", "\n">>)
Prog_forward == Txt(<<"a", " ", "=", " ", "b", "\n", "b", " ", "=", " ", "1", "\n">>)
Prog_empty == <<>>
Prog_dup_def_fn ==
  Txt(<<"k", " ", "=", " ", "1", ";", "k", "(", "x", ")", " ", "x", "\n">>)
Prog_dup_param_lambda ==
  Txt(<<"k", " ", "=", " ", "(", "x", ",", " ", "x", ")", " ", "=", ">", " ", "x", "\n">>)
Prog_ite_bare ==
  Txt(<<"k", " ", "=", " ", "i", "f", " ", "t", "r", "u", "e", " ", "t", "h", "e", "n",
        " ", "1", " ", "e", "l", "s", "e", " ", "0">>)
Prog_outer_param ==
  Txt(<<"f", "(", "x", ")", " ", "(", "y", ")", " ", "=", ">", " ", "x", "\n">>)
Prog_outer_lambda ==
  Txt(<<"k", " ", "=", " ", "(", "x", ")", " ", "=", ">", " ", "(", "y", ")", " ", "=", ">",
        " ", "x", "\n">>)
Prog_backward == Txt(<<"a", " ", "=", " ", "1", "\n", "b", " ", "=", " ", "a", "\n">>)
Prog_self == Txt(<<"k", " ", "=", " ", "k", "\n">>)
Prog_paren_call ==
  Txt(<<"k", " ", "=", " ", "(", "f", "(", "a", ")", ")", "(", ")", "\n">>)
Prog_after_lambda ==
  Txt(<<"f", "(", "x", ")", " ", "f", "(", "(", "y", ")", " ", "=", ">", " ", "y", ",", " ",
        "x", ")", "\n">>)
Prog_lambda_param_after ==
  Txt(<<"k", " ", "=", " ", "k", "(", "(", "y", ")", " ", "=", ">", " ", "y", ",", " ", "y",
        ")", "\n">>)

Programs ==
  { Prog_id_arrow, Prog_id, Prog_two_missing, Prog_missing_then_self, Prog_number,
    Prog_ite, Prog_call, Prog_lambda, Prog_paren, Prog_dup_param, Prog_dup_def,
    Prog_forward, Prog_empty, Prog_dup_def_fn, Prog_dup_param_lambda, Prog_ite_bare,
    Prog_outer_param, Prog_outer_lambda, Prog_backward, Prog_self, Prog_after_lambda,
    Prog_lambda_param_after, Prog_paren_call }

\* The programs in which no scope declares a name twice and every reference
\* names a declared parameter or top-level definition.
CleanPrograms == {Prog_id, Prog_number, Prog_ite, Prog_call, Prog_lambda, Prog_paren, Prog_empty}

Init ==
  /\ file \in Programs
  /\ src = source_Init
  /\ stack = <<Enter("main", Undef)>>
  /\ nextUID = 0
  /\ mem = <<>>
  /\ res = NewResolver
  /\ firstErr = NoErr
  /\ HeapIdle
  /\ TreeIdle
  /\ MapIdle
  /\ ThreadsIdle

Next ==
  \/ Step_soi \/ Step_eoi \/ Step_word \/ Step_range \/ Step_parseAtom
  \/ Step_parseAll \/ Step_all \/ Step_parseAny \/ Step_any \/ Step_many
  \/ Step_option \/ Step_parseEnd
  \/ Step_lowercase \/ Step_Expr \/ Step_ParseExpr \/ Step_Arg \/ Step_Args
  \/ Step_Expr_app \/ Step_Expr_ite \/ Step_Param \/ Step_Params
  \/ Step_Expr_lambda \/ Step_decimalDigits \/ Step_decimalNumber \/ Step_Number
  \/ Step_Expr_number \/ Step_Expr_unit \/ Step_Expr_false \/ Step_Expr_true
  \/ Step_Expr_ref \/ Step_Expr_paren \/ Step_Fn \/ Step_Val \/ Step_Def
  \/ Step_ParseProgram \/ Step_main
  \/ Step_tree_Iter \/ Step_slice_Iter \/ Step_Resolver_resolveArg
  \/ Step_Resolver_validateLocal \/ Step_Resolver_insertLocal
  \/ Step_Resolver_insertLocals \/ Step_Resolver_Expr
  \/ Step_Resolver_insertGlobal \/ Step_Resolver_Program \/ Step_resolve

Spec == Init /\ [][Next]_vars

\* The entries of a table, and the texts of their keys.
EntriesOf(m) == EntriesFrom([m EXCEPT !.Cap = Len(m.Buckets)], 0)
TextsOf(es) == [i \in 1..Len(es) |-> es[i].Key.text]
NoRepeat(sq) == \A i, j \in 1..Len(sq) : sq[i] = sq[j] => i = j

\* C4: after any sequence of set calls on an initialised table, get(k)
\* returns the value of the most recent set(k, v) for every key that was set
\* and not-found for every other key; no entry is lost and no key is held by
\* two entries.
C4_GetReturnsLastSet ==
  (~crashed /\ lastSet.mode = "sets") =>
    /\ got.op = "get" =>
         /\ got.ret <=> got.name \in DOMAIN lastSet.lhs
         /\ got.ret => got.val = lastSet.lhs[got.name]
    /\ {TextsOf(EntriesOf(tabs.lhs))[i] : i \in 1..Len(EntriesOf(tabs.lhs))}
         = DOMAIN lastSet.lhs
    /\ NoRepeat(TextsOf(EntriesOf(tabs.lhs)))

\* C5: after merge(dst, src), and as long as no undefined behaviour was
\* executed, get(dst, k) returns the value dst held before the merge for a key
\* both held, src's value for a key only src held, and the unchanged value
\* for a key only dst held.
C5_MergeDstWins ==
  (~crashed /\ fault = {} /\ lastSet.mode = "merged" /\ got.op = "get") =>
    /\ got.ret <=> got.name \in DOMAIN lastSet.old \cup DOMAIN lastSet.src
    /\ got.ret =>
         got.val = IF got.name \in DOMAIN lastSet.old
                   THEN lastSet.old[got.name] ELSE lastSet.src[got.name]

\* C6: no name text is released twice, and no table in use holds a key whose
\* text has been released.
C6_NoReleasedKeyInUse ==
  /\ "double_free" \notin fault
  /\ \A t \in Tables : \A k \in KeysIn(tabs[t]) : ~IsFreed(heap, k)

(***************************************************************************)
(* Properties of the resolver.                                             *)
(***************************************************************************)
\* The program has left main: the parse was rejected (status 1), or the parse
\* was accepted and the resolver has run and was freed (status 0).
Finished == Len(stack) = 1 /\ Top.fn = "exit"

Resolved == Finished /\ Top.ctx = 0

\* The definitions of the program, in the order tree_Iter visits them.
ProgramDefs == tree_Iter(mem, mem[1].Defs)

\* The kinds of the nodes of expression e.
RECURSIVE KindsIn(_, _)
KindsIn(m, e) ==
  {e.kind} \cup
    CASE e.kind = "Expr_App" ->
           KindsIn(m, m[e.data].F) \cup
             UNION {KindsIn(m, m[e.data].Args[i]) : i \in 1..Len(m[e.data].Args)}
      [] e.kind = "Expr_Ite" ->
           KindsIn(m, m[e.data].i) \cup KindsIn(m, m[e.data].t) \cup KindsIn(m, m[e.data].e)
      [] e.kind = "Expr_Lam" -> KindsIn(m, m[e.data].Body)
      [] OTHER -> {}

\* The definition and parameter nodes in memory.
Binders == {a \in 1..Len(mem) : "Key" \in DOMAIN mem[a]}

\* C1: once the state of the resolver is NotFound or Duplicate, no later step
\* changes the state, the recorded name or span, or any node of the program
\* (stated for the steps that execute no undefined behaviour).
C1_NoOpAfterError ==
  [][(/\ res.State \in {"Resolution_NotFound", "Resolution_Duplicate"}
      /\ fault = {}
      /\ fault' = {})
       => /\ res'.State = res.State
          /\ res'.NameSpan = res.NameSpan
          /\ res'.NameText = res.NameText
          /\ mem' = mem]_vars

\* C2: the error the resolver ends with (kind, name and span) is the first
\* error met in the walk (stated for the runs that execute no undefined
\* behaviour, whatever the number of errors of the program).
C2_FirstErrorReported ==
  (Resolved /\ fault = {}) =>
    /\ res.State = firstErr.State
    /\ res.State # "Resolution_OK" =>
         /\ res.NameSpan = firstErr.NameSpan
         /\ res.NameText.text = firstErr.Name

\* C3: the input "id(x) => x" is accepted as one function definition id with
\* one parameter x and a reference as its body, and resolving it ends in state
\* OK with the reference rewritten to the key of x.
C3_IdArrowAccepted ==
  (file = Prog_id_arrow /\ (Finished \/ Running("resolve"))) =>
    /\ ~src.Failed
    /\ Len(ProgramDefs) = 1
    /\ mem[ProgramDefs[1]].Kind = "Body_Fn"
    /\ source_Text(file, mem[ProgramDefs[1]].Name) = Txt(<<"i", "d">>)
    /\ Len(tree_Iter(mem, mem[ProgramDefs[1]].Params)) = 1
    /\ mem[ProgramDefs[1]].Ret.kind \in {"Expr_Unresolved", "Expr_Resolved"}
    /\ Finished =>
         /\ res.State = "Resolution_OK"
         /\ mem[ProgramDefs[1]].Ret.kind = "Expr_Resolved"
         /\ mem[ProgramDefs[1]].Ret.data.ID =
              mem[tree_Iter(mem, mem[ProgramDefs[1]].Params)[1]].Key

\* C8: for a program without duplicate or missing names the resolver ends in
\* state OK, every reference of every definition body is resolved, and no two
\* definitions or parameters carry the same key.
C8_CleanProgramsResolve ==
  file \in CleanPrograms =>
    /\ ~crashed
    /\ "double_free" \notin fault
    /\ Resolved =>
         /\ res.State = "Resolution_OK"
         /\ \A i \in 1..Len(ProgramDefs) :
              "Expr_Unresolved" \notin KindsIn(mem, mem[ProgramDefs[i]].Ret)
         /\ \A a, b \in Binders : a # b => mem[a].Key # mem[b].Key

(***************************************************************************)
(* Properties of the registry.                                             *)
(***************************************************************************)
\* C7: an in-order traversal of each registry visits the entries in the order
\* they were created, with strictly increasing keys.
C7_InOrderIsCreationOrder ==
  \A i \in DOMAIN regs :
    /\ KeysOf(mem, tree_Iter(mem, regs[i])) = created[i]
    /\ \A a, b \in 1..Len(created[i]) : a < b => created[i][a] < created[i][b]

\* A registry of six entries whose root is not the first entry created and
\* whose left subtree received a node from a rotation.
C7_Witness ==
  \E i \in DOMAIN regs :
    /\ Len(created[i]) >= 6
    /\ mem[regs[i]].Key # created[i][1]
    /\ mem[regs[i]].Left # NULL
    /\ mem[mem[regs[i]].Left].Right # NULL

(***************************************************************************)
(* Properties of the combinators.                                          *)
(***************************************************************************)
\* The frame below the running one.
Caller == stack[Len(stack) - 1]

\* The running function returns / calls branch k of its array and waits.
Returns == Len(stack') = Len(stack) - 1

Calls(k) ==
  /\ Len(stack') = Len(stack) + 1
  /\ stack'[Len(stack)].pc = k
  /\ stack'[Len(stack')].pc = 0
  /\ stack'[Len(stack')].fn = Top.ctx[k].Parse
  /\ stack'[Len(stack')].ctx = Top.ctx[k].Ctx

\* A branch of an alternation starts at the position, line and column the
\* alternation was entered at, with the failed flag clear.
C9_BranchEntry ==
  (~crashed /\ Len(stack) >= 2 /\ Caller.fn = "parseAny" /\ Top.pc = 0) =>
    /\ src.Loc = Caller.loc
    /\ ~src.Failed

\* The steps of an alternation: the first branch is called first; after a
\* branch that succeeded the alternation returns and leaves the cursor alone;
\* after a branch that failed the next branch in the array is called from the
\* saved position, and after the last one the alternation returns at the saved
\* position with the failed flag set.
C9_Step ==
  Running("parseAny") =>
    IF Top.pc = 0
    THEN IF Len(Top.ctx) = 0
         THEN Returns /\ src'.Failed /\ src'.Loc = src.Loc
         ELSE Calls(1) /\ src' = src /\ stack'[Len(stack)].loc = src.Loc
    ELSE IF ~src.Failed
    THEN Returns /\ src' = src
    ELSE IF Top.pc < Len(Top.ctx)
    THEN Calls(Top.pc + 1) /\ src'.Loc = Top.loc /\ ~src'.Failed
    ELSE Returns /\ src'.Loc = Top.loc /\ src'.Failed

\* C9: an alternation runs its branches in declared order, each from the entry
\* position with the failed flag clear, returns at the first branch that
\* succeeds, and returns at the entry position with the failed flag set when
\* every branch fails.
C9_Alternation == []C9_BranchEntry /\ [][C9_Step]_vars

\* A later branch starts after an earlier branch failed away from the entry
\* position.
C9_Witness ==
  /\ Len(stack) >= 2
  /\ Caller.fn = "parseAny"
  /\ Top.pc = 0
  /\ Caller.pc >= 2
  /\ Caller.moved
  /\ src.Loc = Caller.loc

\* many is about to return: the parser it repeats has just failed.
ManyReturns == Running("many") /\ Top.pc = 1 /\ src.Failed

\* C10 as stated: many returns with the failed flag clear and the cursor at the
\* position reached by the last success of p, or at the entry position when p
\* never succeeded.
C10_ManyStopsAtLastSuccess ==
  [][ManyReturns =>
       /\ Returns
       /\ ~src'.Failed
       /\ src'.Loc = IF Top.hits THEN Top.last ELSE Top.entry]_vars

\* C10: many returns with the failed flag clear; the cursor is at the position
\* reached by the last success of p followed, when the cursor is not atomic, by
\* the skipping of the spaces after it, or at the entry position when p never
\* succeeded.
C10_ManyStopsAfterSpaces ==
  [][ManyReturns =>
       /\ Returns
       /\ ~src'.Failed
       /\ src'.Loc =
            IF ~Top.hits THEN Top.entry
            ELSE IF src.Atom THEN Top.last
            ELSE source_SkipSpaces(file, [src EXCEPT !.Loc = Top.last, !.Failed = FALSE]).Loc]_vars

\* many returns after a success of p that was followed by spaces.
C10_Witness == ManyReturns /\ Top.hits /\ Top.loc # Top.last

(***************************************************************************)
(* Identifier specification: several parses in one process, each calling   *)
(* newUID as Param and Def do.  nextUID is a volatile int, so nextUID++ is *)
(* a load of the variable followed by a store of the value loaded plus     *)
(* one, and the return statement loads the variable again; nothing makes   *)
(* the three accesses one step, and the accesses of the threads interleave.*)
(***************************************************************************)
NumThreads == 2
MaxCalls == 3

uidFrame == <<mem, file, src, stack, res, heap, fault, crashed, firstErr,
              regs, created, tabs, lastSet, got, visited, steps>>

UidInit ==
  /\ nextUID = 0
  /\ threads = [t \in 1..NumThreads |-> [pc |-> "call", tmp |-> 0, ids |-> <<>>]]
  /\ visited = <<>>
  /\ steps = 0
  /\ mem = <<>>
  /\ ProgIdle
  /\ HeapIdle
  /\ MapIdle
  /\ TreeIdle

\* nextUID++, first half: the load.
newUID_load(t) ==
  /\ threads[t].pc = "call"
  /\ Len(threads[t].ids) < MaxCalls
  /\ threads' = [threads EXCEPT ![t].pc = "loaded", ![t].tmp = nextUID]
  /\ UNCHANGED nextUID
  /\ UNCHANGED uidFrame

\* nextUID++, second half: the store.
newUID_store(t) ==
  /\ threads[t].pc = "loaded"
  /\ nextUID' = threads[t].tmp + 1
  /\ threads' = [threads EXCEPT ![t].pc = "stored"]
  /\ UNCHANGED uidFrame

\* return nextUID; the caller keeps the value as the Key of its node.
newUID_return(t) ==
  /\ threads[t].pc = "stored"
  /\ threads' = [threads EXCEPT ![t].pc = "call", ![t].ids = Append(@, nextUID)]
  /\ UNCHANGED nextUID
  /\ UNCHANGED uidFrame

UidNext ==
  \E t \in 1..NumThreads : newUID_load(t) \/ newUID_store(t) \/ newUID_return(t)

SpecUID == UidInit /\ [][UidNext]_vars

(***************************************************************************)
(* Balanced tree specification: nodes with pairwise distinct keys are      *)
(* inserted into one tree in any order.                                    *)
(***************************************************************************)
MaxKey == 6

AvlInit ==
  /\ nextUID = 0
  /\ mem = <<>>
  /\ regs = <<NULL>>
  /\ created = << <<>> >>
  /\ ProgIdle
  /\ HeapIdle
  /\ MapIdle
  /\ ThreadsIdle

\* node_Default(node); node->Key = k; root = tree_Insert(root, node), for a
\* key k that no node inserted so far has.
AvlInsert(k) ==
  /\ \A j \in 1..Len(created[1]) : created[1][j] # k
  /\ \E t \in {tree_Insert(Alloc(mem, [node_Default(NewNode) EXCEPT !.Key = k]),
                           regs[1], new(mem))} :
       /\ mem' = t.m
       /\ regs' = [regs EXCEPT ![1] = t.root]
       /\ created' = [created EXCEPT ![1] = Append(@, k)]
  /\ UNCHANGED <<nextUID, file, src, stack, res, heap, fault, crashed, firstErr,
                 tabs, lastSet, got, visited, steps, threads>>

AvlNext == \E k \in 1..MaxKey : AvlInsert(k)

SpecAvl == AvlInit /\ [][AvlNext]_vars

(***************************************************************************)
(* Hash specification: map_hash applied to one key and one capacity.       *)
(***************************************************************************)
MaxKeyLen == 3

HashBytes == {Ascii["a"], Ascii["b"], Ascii["x"]}
HashKeys == UNION {[1..n -> HashBytes] : n \in 0..MaxKeyLen}

HashInit ==
  /\ \E text \in HashKeys, cap \in HashCaps :
       got = [op |-> "key", key |-> Probe(text), cap |-> cap]
  /\ heap = <<>>
  /\ fault = {}
  /\ crashed = FALSE
  /\ tabs = <<>>
  /\ lastSet = <<>>
  /\ nextUID = 0
  /\ mem = <<>>
  /\ TreeIdle
  /\ ProgIdle
  /\ ThreadsIdle

\* index = map_hash(key, cap)
MapHash ==
  /\ got.op = "key"
  /\ \E o \in Oracles :
       got' = [op |-> "hash", key |-> got.key, cap |-> got.cap,
               ret |-> map_hash(heap, got.key, got.cap, o).h]
  /\ UNCHANGED <<tabs, heap, lastSet, fault, crashed>>
  /\ UNCHANGED mapFrame

SpecHash == HashInit /\ [][MapHash]_vars

(***************************************************************************)
(* Expression specification: ParseExpr applied to the text                 *)
(* "if c then t else e", for c, t and e among complete expressions of      *)
(* every form.  The expression is written to the slot a of the object at   *)
(* address 1, as Arg does with its local.                                  *)
(***************************************************************************)
ExprList ==
  << [text |-> Txt(<<"a">>), kind |-> "Expr_Unresolved"],
     [text |-> Txt(<<"1">>), kind |-> "Expr_Num"],
     [text |-> Txt(<<"(", "a", ")">>), kind |-> "Expr_Unresolved"],
     [text |-> Txt(<<"(", ")">>), kind |-> "Expr_Unit"],
     [text |-> Txt(<<"t", "r", "u", "e">>), kind |-> "Expr_True"],
     [text |-> Txt(<<"f", "a", "l", "s", "e">>), kind |-> "Expr_False"],
     [text |-> Txt(<<"f", "(", "a", ",", " ", "1", ")">>), kind |-> "Expr_App"],
     [text |-> Txt(<<"(", "x", ")", " ", "=", ">", " ", "x">>), kind |-> "Expr_Lam"] >>

IteText(c, t, e) ==
  Txt(<<"i", "f", " ">>) \o ExprList[c].text \o Txt(<<" ", "t", "h", "e", "n", " ">>) \o
  ExprList[t].text \o Txt(<<" ", "e", "l", "s", "e", " ">>) \o ExprList[e].text

ExprInit ==
  /\ \E c, t, e \in 1..Len(ExprList) : file = IteText(c, t, e)
  /\ src = source_Init
  /\ stack = <<Enter("ParseExpr", Field(1, "a"))>>
  /\ nextUID = 0
  /\ mem = <<[a |-> UndefExpr]>>
  /\ res = NewResolver
  /\ firstErr = NoErr
  /\ HeapIdle
  /\ TreeIdle
  /\ MapIdle
  /\ ThreadsIdle

ExprNext ==
  \/ Step_word \/ Step_range \/ Step_parseAtom
  \/ Step_parseAll \/ Step_all \/ Step_parseAny \/ Step_any \/ Step_many
  \/ Step_option
  \/ Step_Expr \/ Step_ParseExpr \/ Step_Arg \/ Step_Args
  \/ Step_Expr_app \/ Step_Expr_ite \/ Step_Param \/ Step_Params
  \/ Step_Expr_lambda \/ Step_decimalDigits \/ Step_decimalNumber \/ Step_Number
  \/ Step_Expr_number \/ Step_Expr_unit \/ Step_Expr_false \/ Step_Expr_true
  \/ Step_Expr_ref \/ Step_Expr_paren

SpecExpr == ExprInit /\ [][ExprNext]_vars

(***************************************************************************)
(* Parse specification: main runs ParseProgram on every short text over    *)
(* the characters of the grammar and on the input files of Programs, and   *)
(* stops where the caller of the resolver would take over.  The steps of   *)
(* one sequential process are taken one after the other until main has    *)
(* left ParseProgram: weak fairness of the steps of the parser.  Every     *)
(* step of the parser counts in steps, so ParserRuns is any step of        *)
(* ParseNext, and it is enabled as long as main is in ParseProgram.        *)
(***************************************************************************)
MaxText == 3

ParseChars == {Ascii["k"], Ascii["="], Ascii["("], Ascii[")"], Ascii["1"], Ascii["\n"]}
ParseTexts == UNION {[1..n -> ParseChars] : n \in 0..MaxText}

ParseInit ==
  /\ file \in ParseTexts \cup Programs
  /\ src = source_Init
  /\ stack = <<Enter("main", Undef)>>
  /\ nextUID = 0
  /\ mem = <<>>
  /\ res = NewResolver
  /\ firstErr = NoErr
  /\ HeapIdle
  /\ TreeIdle
  /\ MapIdle
  /\ ThreadsIdle

ParseNext ==
  \/ Step_soi \/ Step_eoi \/ Step_word \/ Step_range \/ Step_parseAtom
  \/ Step_parseAll \/ Step_all \/ Step_parseAny \/ Step_any \/ Step_many
  \/ Step_option \/ Step_parseEnd
  \/ Step_lowercase \/ Step_Expr \/ Step_ParseExpr \/ Step_Arg \/ Step_Args
  \/ Step_Expr_app \/ Step_Expr_ite \/ Step_Param \/ Step_Params
  \/ Step_Expr_lambda \/ Step_decimalDigits \/ Step_decimalNumber \/ Step_Number
  \/ Step_Expr_number \/ Step_Expr_unit \/ Step_Expr_false \/ Step_Expr_true
  \/ Step_Expr_ref \/ Step_Expr_paren \/ Step_Fn \/ Step_Val \/ Step_Def
  \/ Step_ParseProgram \/ Step_main

ParserRuns == stack[1].fn = "main" /\ steps' = steps + 1

SpecParse == ParseInit /\ [][ParseNext]_vars /\ WF_steps(ParserRuns)

(***************************************************************************)
(* Properties of the resolver on duplicate names.                          *)
(***************************************************************************)
\* The programs whose second top-level definition repeats the name of the
\* first, and the programs whose first parameter list holds a name twice.
DupDefPrograms == {Prog_dup_def, Prog_dup_def_fn}
DupParamPrograms == {Prog_dup_param, Prog_dup_param_lambda}

\* The parameter nodes of the first parameter list of the program: the list
\* of the first definition, or of the lambda that is its body.
FirstParams ==
  IF mem[ProgramDefs[1]].Kind = "Body_Fn"
  THEN tree_Iter(mem, mem[ProgramDefs[1]].Params)
  ELSE tree_Iter(mem, mem[mem[ProgramDefs[1]].Ret.data].Params)

\* The name texts the tables of the resolver hold.
TableTexts == {k.text : k \in KeysOfMap(res.Globals) \cup KeysOfMap(res.Locals)
                                \cup KeysOfMap(res.Params)}

\* C11: when two top-level definitions have the same name (and nothing went
\* wrong before) the resolver ends in state Duplicate with the span and the
\* name of the later definition, whose parameters and body are not resolved.
C11_DuplicateDefinition ==
  file \in DupDefPrograms =>
    /\ ~crashed
    /\ Resolved =>
         /\ res.State = "Resolution_Duplicate"
         /\ res.NameSpan = mem[ProgramDefs[2]].Name
         /\ res.NameText.text = source_Text(file, mem[ProgramDefs[2]].Name)
         /\ "Expr_Resolved" \notin KindsIn(mem, mem[ProgramDefs[2]].Ret)
         /\ Txt(<<"x">>) \notin TableTexts

\* C12: when a parameter list holds the same name twice the resolver ends in
\* state Duplicate with the span and the name of the later parameter; Locals
\* is not replaced (for the list of the first definition it is never set up)
\* and the body is not resolved.
C12_DuplicateParameter ==
  file \in DupParamPrograms =>
    /\ ~crashed
    /\ Resolved =>
         /\ res.State = "Resolution_Duplicate"
         /\ res.NameSpan = mem[FirstParams[2]].Name
         /\ res.NameText.text = source_Text(file, mem[FirstParams[2]].Name)
         /\ "Expr_Resolved" \notin KindsIn(mem, mem[ProgramDefs[1]].Ret)
         /\ mem[ProgramDefs[1]].Kind = "Body_Fn" => res.Locals = Undef

(***************************************************************************)
(* Properties of the grammar.                                              *)
(***************************************************************************)
\* main has left ParseProgram.
Parsed == stack # <<>> /\ stack[1].fn \in {"resolve", "exit"}

\* The program is one value definition without parameters whose body is a
\* conditional over true, the number 1 and the number 0.
OneConditionalValue ==
  /\ ~src.Failed
  /\ Len(ProgramDefs) = 1
  /\ mem[ProgramDefs[1]].Kind = "Body_Val"
  /\ mem[ProgramDefs[1]].Params = NULL
  /\ mem[ProgramDefs[1]].Ret.kind = "Expr_Ite"
  /\ mem[mem[ProgramDefs[1]].Ret.data].i.kind = "Expr_True"
  /\ mem[mem[ProgramDefs[1]].Ret.data].t.kind = "Expr_Num"
  /\ source_Text(file, mem[mem[ProgramDefs[1]].Ret.data].t.data) = Txt(<<"1">>)
  /\ mem[mem[ProgramDefs[1]].Ret.data].e.kind = "Expr_Num"
  /\ source_Text(file, mem[mem[ProgramDefs[1]].Ret.data].e.data) = Txt(<<"0">>)

\* C13 as stated: the text "k = if true then 1 else 0", with nothing after
\* it, is accepted as one value definition whose body is that conditional.
C13_BareConditionalAccepted == (file = Prog_ite_bare /\ Parsed) => OneConditionalValue

\* C13: the text "k = if true then 1 else 0" followed by a newline is accepted
\* as one value definition without parameters whose body is a conditional
\* over true, the number 1 and the number 0.
C13_ConditionalAccepted == (file = Prog_ite /\ Parsed) => OneConditionalValue

C13_Witness == file = Prog_ite /\ Parsed /\ ~src.Failed /\ Len(ProgramDefs) = 1

(***************************************************************************)
(* Scopes of the resolver.                                                 *)
(***************************************************************************)
OuterParamPrograms == {Prog_outer_param, Prog_outer_lambda}

\* C14: a reference inside a lambda body to a parameter of the enclosing
\* definition or lambda, which is neither a parameter of the lambda itself nor
\* a global inserted so far, is not resolved: the resolver ends in NotFound
\* with the span and the name of that reference.
C14_OuterParameterNotFound ==
  file \in OuterParamPrograms =>
    /\ ~crashed
    /\ Resolved =>
         /\ res.State = "Resolution_NotFound"
         /\ source_Text(file, res.NameSpan) = Txt(<<"x">>)
         /\ res.NameText.text = Txt(<<"x">>)
         /\ "Expr_Resolved" \notin KindsIn(mem, mem[ProgramDefs[1]].Ret)

(***************************************************************************)
(* Identifiers under concurrency.                                          *)
(***************************************************************************)
\* The calls of newUID that have returned: <<thread, number of the call>>.
ReturnedCalls ==
  {c \in (1..Len(threads)) \X (1..MaxCalls) : c[2] <= Len(threads[c[1]].ids)}

\* C15: however the calls of newUID made by concurrent parses interleave, no
\* two calls return the same identifier.
C15_IdentifiersUnique ==
  \A c, d \in ReturnedCalls :
    c # d => threads[c[1]].ids[c[2]] # threads[d[1]].ids[d[2]]

(***************************************************************************)
(* Properties of the balanced tree.                                        *)
(***************************************************************************)
\* The nodes reachable from root.
NodesOf(m, root) == {tree_Iter(m, root)[j] : j \in 1..Len(tree_Iter(m, root))}

\* The number of nodes on the longest path from node down to a leaf.
RECURSIVE Depth(_, _)
Depth(m, node) ==
  IF node = NULL THEN 0 ELSE max(Depth(m, m[node].Left), Depth(m, m[node].Right)) + 1

Balanced(m, n) ==
  Depth(m, m[n].Left) - Depth(m, m[n].Right) \in {-1, 0, 1}

Ordered(m, n) ==
  /\ \A l \in NodesOf(m, m[n].Left) : m[l].Key < m[n].Key
  /\ \A r \in NodesOf(m, m[n].Right) : m[r].Key > m[n].Key

\* C17: after any sequence of insertions of nodes with pairwise distinct keys,
\* in any order, every node has subtrees whose heights differ by at most one,
\* every Height field is the height of the node's subtree, the tree is a
\* binary search tree on Key, and it holds exactly the nodes inserted.
C17_TreeBalancedAndComplete ==
  \A i \in DOMAIN regs :
    /\ \A n \in NodesOf(mem, regs[i]) :
         /\ Balanced(mem, n)
         /\ mem[n].Height = Depth(mem, n)
         /\ Ordered(mem, n)
    /\ NodesOf(mem, regs[i]) = 1..Len(mem)
    /\ Len(tree_Iter(mem, regs[i])) = Len(created[i])
    /\ {mem[n].Key : n \in NodesOf(mem, regs[i])} =
         {created[i][j] : j \in 1..Len(created[i])}

\* The keys 3, 1, 2 in this order: the third insertion rotates twice, and the
\* last node inserted is the root.
C17_Witness ==
  /\ created = << <<3, 1, 2>> >>
  /\ mem[regs[1]].Key = 2
  /\ mem[mem[regs[1]].Left].Key = 1
  /\ mem[mem[regs[1]].Right].Key = 3

(***************************************************************************)
(* Properties of the symbol table.                                         *)
(***************************************************************************)
\* h = h * 31 + byte for each byte of the text in order, from h = 0.  The
\* texts of the model are too short for h to exceed the width of size_t.
RECURSIVE Polynomial31(_, _)
Polynomial31(text, n) ==
  IF n = 0 THEN 0 ELSE Polynomial31(text, n - 1) * 31 + text[n]

\* C18: the bucket index of a key is the base-31 polynomial over all the bytes
\* of the key, reduced modulo the capacity.
C18_HashIsPolynomial ==
  got.op = "hash" =>
    got.ret = Polynomial31(got.key.text, Len(got.key.text)) % got.cap

(***************************************************************************)
(* The flags of the cursor.                                                *)
(***************************************************************************)
NoFlags == [Atom |-> FALSE, NewlineSensitive |-> FALSE]

\* parseAtom or parseEnd executes its last statements and returns.
FlagScopeReturns ==
  /\ ~crashed
  /\ stack # <<>>
  /\ Top.fn \in {"parseAtom", "parseEnd"}
  /\ Top.pc = 1
  /\ stack' = Return

C20_FlagsRestored == FlagScopeReturns => Flags(src') = Top.flags

C20_FlagsClear ==
  /\ (Running("Def") /\ Top.pc = 0) => Flags(src) = NoFlags
  /\ Parsed => Flags(src) = NoFlags

\* C20: parseAtom and parseEnd return with the Atom and NewlineSensitive
\* flags they were entered with, whether the parser they ran succeeded or
\* failed; both flags are false whenever a top-level definition starts to be
\* parsed and when ParseProgram has returned.
C20_FlagsScoped == [][C20_FlagsRestored]_vars /\ []C20_FlagsClear

\* parseEnd has just returned to Val with the cursor failed: it found neither
\* ";" nor a newline, and the flags are those Val called it with.
C20_Witness ==
  /\ Running("Val")
  /\ Top.pc = 2
  /\ src.Failed
  /\ Flags(src) = NoFlags

(***************************************************************************)
(* The contract of map_Set.                                                *)
(***************************************************************************)
KeyTexts(m) == {TextsOf(EntriesOf(m))[i] : i \in 1..Len(EntriesOf(m))}

\* What the claim says of one call set(name, val) on table t that returns.
SetContract(t, name, val) ==
  /\ got'.ret <=> name \in KeyTexts(tabs[t])
  /\ \E i \in 1..Len(EntriesOf(tabs'[t])) :
       /\ EntriesOf(tabs'[t])[i].Key.text = name
       /\ EntriesOf(tabs'[t])[i].Val = val
  /\ IF name \in KeyTexts(tabs[t])
     THEN /\ tabs'[t].Size = tabs[t].Size
          /\ Len(EntriesOf(tabs'[t])) = Len(EntriesOf(tabs[t]))
     ELSE /\ tabs'[t].Size = tabs[t].Size + 1
          /\ Len(EntriesOf(tabs'[t])) = Len(EntriesOf(tabs[t])) + 1

C19_SetStep ==
  \A t \in Tables, name \in Names, val \in Vals :
    (MapSet(t, name, val) /\ ~crashed') => SetContract(t, name, val)

C19_SizeIsKeys ==
  ~crashed =>
    \A t \in Tables :
      /\ tabs[t].Size = Cardinality(KeyTexts(tabs[t]))
      /\ NoRepeat(TextsOf(EntriesOf(tabs[t])))

\* C19: set(k, v) returns true exactly when k was a key of the table before
\* the call; then the value of k becomes v and Size is unchanged, otherwise
\* one entry is added and Size grows by one.  In every reachable state Size
\* is the number of distinct keys stored and no key is held by two entries.
C19_SetContract == [][C19_SetStep]_vars /\ []C19_SizeIsKeys

(***************************************************************************)
(* What the resolver leaves alone.                                         *)
(***************************************************************************)
\* Expression a of memory m1 and expression b of memory m2 are the same node
\* with the same children, but for references that were unresolved in the
\* first and are resolved in the second.
RECURSIVE ExprKept(_, _, _, _)
ExprKept(m1, m2, a, b) ==
  IF a.kind = "Expr_Unresolved"
  THEN b = a \/ b.kind = "Expr_Resolved"
  ELSE /\ b.kind = a.kind
       /\ b.data = a.data
       /\ CASE a.kind = "Expr_App" ->
                 /\ ExprKept(m1, m2, m1[a.data].F, m2[a.data].F)
                 /\ Len(m2[a.data].Args) = Len(m1[a.data].Args)
                 /\ \A i \in 1..Len(m1[a.data].Args) :
                      ExprKept(m1, m2, m1[a.data].Args[i], m2[a.data].Args[i])
            [] a.kind = "Expr_Ite" ->
                 /\ ExprKept(m1, m2, m1[a.data].i, m2[a.data].i)
                 /\ ExprKept(m1, m2, m1[a.data].t, m2[a.data].t)
                 /\ ExprKept(m1, m2, m1[a.data].e, m2[a.data].e)
            [] a.kind = "Expr_Lam" ->
                 /\ m2[a.data].Params = m1[a.data].Params
                 /\ \A p \in NodesOf(m1, m1[a.data].Params) : m2[p] = m1[p]
                 /\ ExprKept(m1, m2, m1[a.data].Body, m2[a.data].Body)
            [] OTHER -> TRUE

\* The registry of the definitions, every definition but for its body, and
\* every parameter are the same in m1 and m2, and the bodies are kept.
ProgramKept(m1, m2) ==
  /\ m2[1] = m1[1]
  /\ \A d \in NodesOf(m1, m1[1].Defs) :
       /\ [m2[d] EXCEPT !.Ret = NULL] = [m1[d] EXCEPT !.Ret = NULL]
       /\ \A p \in NodesOf(m1, m1[d].Params) : m2[p] = m1[p]
       /\ ExprKept(m1, m2, m1[d].Ret, m2[d].Ret)

\* C16: the resolver changes the program only by turning unresolved
\* references into resolved ones: the kind and the children of every other
\* node, the registries, and the key and the name span of every definition
\* and parameter are the same after each of its steps as before, whether it
\* ends in OK or in an error.
C16_ResolverFrame == [][Parsed => ProgramKept(mem, mem')]_vars

\* The resolver has ended in an error after it rewrote a reference.
C16_Witness ==
  /\ Resolved
  /\ res.State = "Resolution_NotFound"
  /\ "Expr_Resolved" \in KindsIn(mem, mem[ProgramDefs[1]].Ret)

(***************************************************************************)
(* The bucket array of the symbol table.                                   *)
(***************************************************************************)
\* C26: a table just initialised by map_Default has Size 0, Cap 8 and a
\* bucket array of exactly Cap empty slots; in every state reached by set and
\* rehash the bucket array has exactly Cap slots and Size <= Cap, so every
\* index computed modulo Cap addresses an allocated slot.
C26_BucketArrayHasCapSlots ==
  ~crashed =>
    \A t \in Tables :
      /\ Len(tabs[t].Buckets) = tabs[t].Cap
      /\ tabs[t].Size <= tabs[t].Cap
      /\ got.op = "init" =>
           /\ tabs[t].Size = 0
           /\ tabs[t].Cap = MapInitCap
           /\ \A i \in 1..Len(tabs[t].Buckets) : tabs[t].Buckets[i] = <<>>

(***************************************************************************)
(* Properties of ParseExpr.                                                *)
(***************************************************************************)
\* Expression x is the parse of entry i of ExprList, as far as its kind and,
\* for a name or a number, its text tell.
ParseOf(x, i) ==
  /\ x.kind = ExprList[i].kind
  /\ x.kind = "Expr_Unresolved" => source_Text(file, x.data) = Txt(<<"a">>)
  /\ x.kind = "Expr_Num" => source_Text(file, x.data) = Txt(<<"1">>)

\* C21: for all complete expressions c, t and e, a parenthesised c and the
\* unit included, ParseExpr applied to "if c then t else e" succeeds,
\* consumes the whole text and produces a conditional whose condition and
\* branches are the parses of c, t and e.
C21_ConditionalOfAnyParts ==
  stack = <<>> =>
    \A c, t, e \in 1..Len(ExprList) :
      file = IteText(c, t, e) =>
        /\ ~src.Failed
        /\ src.Loc.Pos = Len(file)
        /\ mem[1].a.kind = "Expr_Ite"
        /\ ParseOf(mem[mem[1].a.data].i, c)
        /\ ParseOf(mem[mem[1].a.data].t, t)
        /\ ParseOf(mem[mem[1].a.data].e, e)

(***************************************************************************)
(* The order in which the definitions become visible.                      *)
(***************************************************************************)
\* The body of definition i is a reference resolved to definition j.
RefersTo(i, j) ==
  mem[ProgramDefs[i]].Ret = [kind |-> "Expr_Resolved", data |-> [ID |-> mem[ProgramDefs[j]].Key]]

\* C22: a definition's name enters Globals just before its own body is
\* resolved: a reference to the definition itself or to one parsed before it
\* resolves to that definition's key, and a reference to a definition parsed
\* after it ends the resolution in NotFound.
C22_VisibleInParseOrder ==
  /\ file \in {Prog_backward, Prog_self, Prog_forward} => ~crashed
  /\ (file = Prog_backward /\ Resolved) =>
       /\ res.State = "Resolution_OK"
       /\ RefersTo(2, 1)
  /\ (file = Prog_self /\ Resolved) =>
       /\ res.State = "Resolution_OK"
       /\ RefersTo(1, 1)
  /\ (file = Prog_forward /\ Resolved) =>
       /\ res.State = "Resolution_NotFound"
       /\ res.NameText.text = Txt(<<"b">>)
       /\ mem[ProgramDefs[1]].Ret.kind = "Expr_Unresolved"

(***************************************************************************)
(* The walk of the resolver.                                               *)
(***************************************************************************)
\* C23: during a run of the resolver over a freshly parsed program,
\* Resolver_Expr is never entered on a reference that is already resolved, no
\* expression is visited twice, and the unreachable() exit is never taken.
C23_EachExpressionVisitedOnce ==
  /\ (stack # <<>> /\ Top.fn = "Resolver_Expr" /\ Top.pc = 0) =>
       Load(mem, Top.ctx).kind # "Expr_Resolved"
  /\ NoRepeat(visited)
  /\ (Finished /\ Top.ctx = 1) => res.State = "Undef"

\* The resolver has ended after it went through an application with
\* arguments, and it rewrote a reference.
C23_Witness ==
  /\ Resolved
  /\ Len(visited) >= 3
  /\ \E i \in 1..Len(visited) : "idx" \in DOMAIN visited[i]
  /\ \E i \in 1..Len(visited) : Load(mem, visited[i]).kind = "Expr_Resolved"

(***************************************************************************)
(* Termination of the parser.                                              *)
(***************************************************************************)
\* The frames of parseAny that run the alternatives of ParseExpr; loc is the
\* position ParseExpr was entered at.
ExprFrames ==
  {i \in 1..Len(stack) : /\ stack[i].fn = "parseAny"
                         /\ stack[i].pc >= 1
                         /\ Len(stack[i].ctx) = Len(ParseExpr_branches(Undef))
                         /\ stack[i].ctx[1].Parse = "Expr_app"}

C24_ManyAdvances ==
  (stack # <<>> /\ Top.fn = "many" /\ Top.pc = 1 /\ ~src.Failed) =>
    src.Loc.Pos > Top.loc.Pos

C24_ExprAdvances ==
  /\ \A i, j \in ExprFrames : i < j => stack[i].loc.Pos < stack[j].loc.Pos
  /\ (stack # <<>> /\ Top.fn = "ParseExpr") =>
       \A i \in ExprFrames : stack[i].loc.Pos < src.Loc.Pos

\* As long as main is in ParseProgram the parser has a step to take.
C24_NeverStuck == ~Parsed => ENABLED ParseNext

\* The bound on the steps of ParseProgram: linear in the length of the text
\* for each alternative tried, and every opening parenthesis is read by up to
\* two alternatives (Params or Args, and Expr_paren) that go on behind it.
Opens(text) == Cardinality({i \in 1..Len(text) : text[i] = Ascii["("]})

StepBound(text) == 40 * (Len(text) + 1) * 2^Opens(text)

\* C24: ParseProgram terminates on every input: every iteration of a many
\* that succeeds has consumed at least one character, ParseExpr is never
\* re-entered at a position at which a call of it is still open, and the
\* parser, whose every step counts in steps, always has a step to take until
\* main has left ParseProgram, which it does within StepBound(file) steps.
C24_ParseTerminates ==
  /\ C24_ManyAdvances
  /\ C24_ExprAdvances
  /\ C24_NeverStuck
  /\ steps <= StepBound(file)

\* ParseProgram has returned after many took two definitions, and a nested
\* expression was parsed.
C24_Witness ==
  /\ Parsed
  /\ ~src.Failed
  /\ Len(ProgramDefs) >= 2
  /\ \E i \in 1..Len(mem) : "Args" \in DOMAIN mem[i] /\ Len(mem[i].Args) >= 2

(***************************************************************************)
(* The locals after a lambda.                                              *)
(***************************************************************************)
\* C25: after a lambda has been resolved, the following expressions of the
\* same body see the locals of before the lambda: in f(x) f((y) => y, x) the
\* argument x after the lambda resolves, and in k = k((y) => y, y) the
\* argument y after the lambda, which names the lambda's own parameter, is
\* not found.
C25_LocalsAfterLambda ==
  /\ file \in {Prog_after_lambda, Prog_lambda_param_after} => ~crashed
  /\ (file = Prog_after_lambda /\ Resolved) =>
       /\ res.State = "Resolution_OK"
       /\ "Expr_Unresolved" \notin KindsIn(mem, mem[ProgramDefs[1]].Ret)
  /\ (file = Prog_lambda_param_after /\ Resolved) =>
       /\ res.State = "Resolution_NotFound"
       /\ res.NameText.text = Txt(<<"y">>)
       /\ res.NameSpan.Start.Pos = 16

(***************************************************************************)
(* What a backtracked attempt leaves in the syntax tree.                   *)
(***************************************************************************)
\* The characters of text f from position a up to position b, spaces left out.
Glue(f, a, b) == SelectSeq(SubSeq(f, a + 1, b), LAMBDA c : ~isspace(c))

\* A parameter list as it is written: the names of the nodes between
\* parentheses, with commas.
RECURSIVE NamesWritten(_, _)
NamesWritten(nodes, i) ==
  IF i > Len(nodes) THEN Txt(<<")">>)
  ELSE (IF i = 1 THEN Txt(<<"(">>) ELSE Txt(<<",">>))
         \o source_Text(file, mem[nodes[i]].Name) \o NamesWritten(nodes, i + 1)

\* The registry holds the parameters written behind position from, in the
\* order they are written.
ParamsWrittenAt(registry, from) ==
  \E b \in from..Len(file) :
    Glue(file, from, b) = NamesWritten(tree_Iter(mem, registry), 1)

\* The registry of a lambda holds the parameters of one written list.
ParamsWritten(registry) ==
  registry # NULL =>
    /\ \A i \in 1..(Len(tree_Iter(mem, registry)) - 1) :
         mem[tree_Iter(mem, registry)[i]].Name.End.Pos
           <= mem[tree_Iter(mem, registry)[i + 1]].Name.Start.Pos
    /\ \E a \in 0..mem[tree_Iter(mem, registry)[1]].Name.Start.Pos :
         ParamsWrittenAt(registry, a)

\* The applications and the lambdas of expression e, outermost first and in
\* the order they are written.
RECURSIVE AppsIn(_, _, _)
AppsIn(m, e, kind) ==
  (IF e.kind = kind THEN <<e.data>> ELSE <<>>) \o
    CASE e.kind = "Expr_App" ->
           AppsIn(m, m[e.data].F, kind) \o
             AppsIn(m, [kind |-> "Args", data |-> m[e.data].Args], kind)
      [] e.kind = "Args" ->
           IF e.data = <<>> THEN <<>>
           ELSE AppsIn(m, Head(e.data), kind) \o
                  AppsIn(m, [kind |-> "Args", data |-> Tail(e.data)], kind)
      [] e.kind = "Expr_Ite" ->
           AppsIn(m, m[e.data].i, kind) \o AppsIn(m, m[e.data].t, kind)
             \o AppsIn(m, m[e.data].e, kind)
      [] e.kind = "Expr_Lam" -> AppsIn(m, m[e.data].Body, kind)
      [] OTHER -> <<>>

\* An argument as far as its kind and, for a name, its text tell.
Shape(e) ==
  [kind |-> e.kind,
   text |-> IF e.kind = "Expr_Unresolved" THEN source_Text(file, e.data) ELSE <<>>]

Name(c) == [kind |-> "Expr_Unresolved", text |-> Txt(<<c>>)]
Plain(kind) == [kind |-> kind, text |-> <<>>]

\* The argument lists written in the input files, one per application,
\* outermost application first.
WrittenArgs ==
  CASE file = Prog_two_missing -> << <<Name("a"), Name("b")>> >>
    [] file = Prog_missing_then_self -> << <<Name("a"), Name("k")>> >>
    [] file = Prog_call -> << <<Plain("Expr_Unit"), Plain("Expr_False")>> >>
    [] file = Prog_after_lambda -> << <<Plain("Expr_Lam"), Name("x")>> >>
    [] file = Prog_lambda_param_after -> << <<Plain("Expr_Lam"), Name("y")>> >>
    [] file = Prog_paren_call -> << <<>>, <<Name("a")>> >>
    [] OTHER -> <<>>

\* The argument lists of the applications of the program, in the order of
\* the definitions.
RECURSIVE ArgsFrom(_)
ArgsFrom(i) ==
  IF i > Len(ProgramDefs) THEN <<>>
  ELSE [j \in 1..Len(AppsIn(mem, mem[ProgramDefs[i]].Ret, "Expr_App")) |->
          [k \in 1..Len(mem[AppsIn(mem, mem[ProgramDefs[i]].Ret, "Expr_App")[j]].Args) |->
             Shape(mem[AppsIn(mem, mem[ProgramDefs[i]].Ret, "Expr_App")[j]].Args[k])]]
         \o ArgsFrom(i + 1)

\* ParseProgram has accepted the input.
Accepted == Parsed /\ ~src.Failed

\* C27: in the tree of an accepted program nothing is left of a backtracked
\* attempt: a value definition has no parameter, the registry of a function
\* definition holds the parameters written behind its name, the registry of
\* a lambda holds the parameters of one written list, and the arguments of
\* the applications are the written ones, in the order they are written.
C27_NothingLeftOfBacktracking ==
  Accepted =>
    /\ \A i \in 1..Len(ProgramDefs) :
         /\ mem[ProgramDefs[i]].Kind = "Body_Val" => mem[ProgramDefs[i]].Params = NULL
         /\ mem[ProgramDefs[i]].Kind = "Body_Fn" =>
              ParamsWrittenAt(mem[ProgramDefs[i]].Params, mem[ProgramDefs[i]].Name.End.Pos)
         /\ \A j \in 1..Len(AppsIn(mem, mem[ProgramDefs[i]].Ret, "Expr_Lam")) :
              ParamsWritten(mem[AppsIn(mem, mem[ProgramDefs[i]].Ret, "Expr_Lam")[j]].Params)
    /\ ArgsFrom(1) = WrittenArgs

\* An accepted program with a function of two parameters and an application
\* of two arguments; the attempt at a lambda on the first argument, (), fails
\* after Params has succeeded.
C27_Witness ==
  /\ Accepted
  /\ file = Prog_call
  /\ Len(tree_Iter(mem, mem[ProgramDefs[1]].Params)) = 2
  /\ Len(ArgsFrom(1)[1]) = 2

====
